---------------------------- MODULE Spec2Model ----------------------------
(***************************************************************************)
(* Rule engine of the Wataru-To connection game: the two-layer board, the  *)
(* move legality check, legal-move generation with its cache, and the      *)
(* apply / undo / reset transitions of the game state; and the Monte-Carlo *)
(* tree search engine built on it.                                         *)
(*                                                                         *)
(* Indexing follows the source: board[row][col][layer] with row, col in    *)
(* 0..size-1 and layer 0 (layer 1 of the game) or 1 (layer 2, the bridge   *)
(* layer); players are 1 and -1.  A Move is [player, path]; the timestamp  *)
(* field of the source is left out because no rule reads it.  An optional  *)
(* value (winner, the cache) is <<>> for None and <<v>> for a value v.     *)
(***************************************************************************)
EXTENDS Integers, Sequences, FiniteSets, TLC

VARIABLES size, board, current_player, player_blocks, move_history, winner,
          legal_moves_cache, cache_valid,
          mcts, nodes, pc, simulation_count, returned, time_up,
          cloned, playout

\* the game object
gameVars == <<size, board, current_player, player_blocks, move_history, winner,
              legal_moves_cache, cache_valid>>

\* the search engine, its tree and the position of a search call
searchVars == <<mcts, nodes, pc, simulation_count, returned, time_up>>

\* cloned is the object a clone() call returned, once there is one; playout
\* holds the locals of a playout call while the game object is its argument
vars == <<size, board, current_player, player_blocks, move_history, winner,
          legal_moves_cache, cache_valid,
          mcts, nodes, pc, simulation_count, returned, time_up, cloned, playout>>

-----------------------------------------------------------------------------
(* Bounds of the model *)

\* board sizes the constructor is called with
BoardSizes == {4, 5}
\* the smallest of them: the move bound below is counted from it
SmallBoard == CHOOSE n \in BoardSizes : \A m \in BoardSizes : n <= m
\* the smallest board the game accepts
MinBoardSize == 3
\* longest history explored on the small board; each extra row and column
\* of a larger board shortens it by LargeBoardCut
MaxMoves == 3
LargeBoardCut == 1
\* number of non-empty slots explored when cells are written directly
MaxTiles == 4
\* longest history explored while get_legal_moves calls are interleaved
MaxCacheMoves == 1
\* longest history explored from the recorded opening
MaxEndgameMoves == 5
\* longest path a caller hands to the Move constructor
MaxPathLen == 6
\* most simulations a search runs, and the largest max_simulations configured
MaxSimulations == 4

None == <<>>
Some(v) == <<v>>
Players == {1, -1}

-----------------------------------------------------------------------------
(* Position and Move (move.py) *)

Position(row, col, layer) == [row |-> row, col |-> col, layer |-> layer]

Move(player, path) == [player |-> player, path |-> path]

\* the constructor without the upper limit on the path length
MoveConstructible_no_upper_limit(player, path) ==
    /\ player \in Players
    /\ Len(path) >= 3

\* Move.__post_init__: the constructor raises unless this holds
MoveConstructible(player, path) ==
    /\ player \in Players
    /\ Len(path) >= 3
    /\ Len(path) <= 5

block_size(move) == Len(move.path)

is_bridge_mode(move) == move.path[1].layer = 1

end_position(move) == move.path[Len(move.path)]

Range(s) == {s[i] : i \in 1..Len(s)}

\* the key sorted() is called with: lambda p: p.col or lambda p: p.row
SortKey(pos, by_col) == IF by_col THEN pos.col ELSE pos.row

\* sorted(path, key=...): Python's sort is stable, so an element goes after
\* every element whose key is not larger
RECURSIVE InsertByKey(_, _, _)
InsertByKey(s, x, by_col) ==
    IF s = <<>> THEN <<x>>
    ELSE IF SortKey(x, by_col) < SortKey(Head(s), by_col) THEN <<x>> \o s
    ELSE <<Head(s)>> \o InsertByKey(Tail(s), x, by_col)

RECURSIVE sorted(_, _)
sorted(path, by_col) ==
    IF path = <<>> THEN <<>>
    ELSE InsertByKey(sorted(SubSeq(path, 1, Len(path) - 1), by_col),
                     path[Len(path)], by_col)

all_same_row(path) == \A i \in 1..Len(path) : path[i].row = path[1].row
all_same_col(path) == \A i \in 1..Len(path) : path[i].col = path[1].col

\* Move.validate_path
validate_path(move) ==
    LET path == move.path
        n == Len(path)
        sr == sorted(path, TRUE)
        sc == sorted(path, FALSE)
    IN  /\ ~(n < 3 \/ n > 5)
        /\ (all_same_row(path) \/ all_same_col(path))
        /\ Cardinality(Range(path)) = n
        /\ IF all_same_row(path)
           THEN \A i \in 1..(n - 1) : sr[i + 1].col - sr[i].col = 1
           ELSE \A i \in 1..(n - 1) : sc[i + 1].row - sc[i].row = 1

-----------------------------------------------------------------------------
(* Board (board.py) *)

EmptyBoard(n) == [r \in 0..(n - 1) |-> [c \in 0..(n - 1) |-> [l \in 0..1 |-> 0]]]

is_valid_position(n, row, col) ==
    /\ 0 <= row /\ row < n
    /\ 0 <= col /\ col < n

has_player_color(n, b, row, col, player) ==
    /\ is_valid_position(n, row, col)
    /\ (b[row][col][0] = player \/ b[row][col][1] = player)

set_cell(b, row, col, layer, value) == [b EXCEPT ![row][col][layer] = value]

\* the neighbour to the right is left out
Directions_without_right == << <<1, 0>>, <<-1, 0>>, <<0, -1>> >>

\* the order in which check_bridge looks at the neighbours of a cell
Directions == << <<1, 0>>, <<-1, 0>>, <<0, 1>>, <<0, -1>> >>

\* the for loop over the four directions: unvisited neighbours that hold the
\* player's color are marked and pushed
RECURSIVE PushNeighbours(_, _, _, _, _, _)
PushNeighbours(n, b, player, cell, st, i) ==
    IF i > Len(Directions) THEN st
    ELSE LET nr == cell[1] + Directions[i][1]
             nc == cell[2] + Directions[i][2]
             take == /\ is_valid_position(n, nr, nc)
                     /\ <<nr, nc>> \notin st.visited
                     /\ has_player_color(n, b, nr, nc, player)
             st2 == IF take
                    THEN [stack |-> Append(st.stack, <<nr, nc>>),
                          visited |-> st.visited \cup {<<nr, nc>>}]
                    ELSE st
         IN  PushNeighbours(n, b, player, cell, st2, i + 1)

\* the while loop of check_bridge: pop the top of the stack, stop at the goal
\* edge, push the neighbours otherwise
RECURSIVE BridgeSearch(_, _, _, _)
BridgeSearch(n, b, player, st) ==
    IF st.stack = <<>> THEN FALSE
    ELSE LET cell == st.stack[Len(st.stack)]
             rest == [stack |-> SubSeq(st.stack, 1, Len(st.stack) - 1),
                      visited |-> st.visited]
         IN  IF player = 1 /\ cell[1] = n - 1 THEN TRUE
             ELSE IF player = -1 /\ cell[2] = n - 1 THEN TRUE
             ELSE BridgeSearch(n, b, player,
                               PushNeighbours(n, b, player, cell, rest, 1))

\* the start cells: row 0 for player 1, column 0 for player -1, in index order
RECURSIVE BridgeStarts(_, _, _, _)
BridgeStarts(n, b, player, i) ==
    IF i >= n THEN <<>>
    ELSE LET cell == IF player = 1 THEN <<0, i>> ELSE <<i, 0>>
         IN  (IF has_player_color(n, b, cell[1], cell[2], player)
              THEN <<cell>> ELSE <<>>)
             \o BridgeStarts(n, b, player, i + 1)

\* Board.check_bridge
check_bridge(n, b, player) ==
    LET starts == BridgeStarts(n, b, player, 0)
    IN  BridgeSearch(n, b, player,
                     [stack |-> starts, visited |-> Range(starts)])

-----------------------------------------------------------------------------
(* MoveValidator.is_valid_move (move.py).  The source returns the pair      *)
(* (is_valid, error_message); the model keeps the flag.                    *)

\* the loop without the test of the colour under a bridge cell after the
\* first
RECURSIVE BoardCheck_over_any_color(_, _, _, _)
BoardCheck_over_any_color(move, b, sp, i) ==
    IF i > Len(sp) THEN TRUE
    ELSE LET pos == sp[i]
             rows == Cardinality(DOMAIN b)
             cols == Cardinality(DOMAIN b[0])
         IN  IF pos.row < 0 \/ pos.row >= rows THEN FALSE
             ELSE IF pos.col < 0 \/ pos.col >= cols THEN FALSE
             ELSE LET layer1 == b[pos.row][pos.col][0]
                      layer2 == b[pos.row][pos.col][1]
                      first_layer == sp[1].layer
                  IN  IF layer2 # 0 THEN FALSE
                      ELSE IF i = 1
                      THEN IF pos.layer = 0 /\ layer1 # 0 THEN FALSE
                           ELSE IF pos.layer = 1 /\ layer1 # move.player THEN FALSE
                           ELSE BoardCheck_over_any_color(move, b, sp, i + 1)
                      ELSE IF first_layer = 0
                      THEN IF pos.layer # 0 \/ layer1 # 0 THEN FALSE
                           ELSE BoardCheck_over_any_color(move, b, sp, i + 1)
                      ELSE IF pos.layer # 1 THEN FALSE
                           ELSE BoardCheck_over_any_color(move, b, sp, i + 1)

\* the for loop over the sorted path at index i (0-based in the source)
RECURSIVE BoardCheck(_, _, _, _)
BoardCheck(move, b, sp, i) ==
    IF i > Len(sp) THEN TRUE
    ELSE LET pos == sp[i]
             rows == Cardinality(DOMAIN b)
             cols == Cardinality(DOMAIN b[0])
         IN  IF pos.row < 0 \/ pos.row >= rows THEN FALSE
             ELSE IF pos.col < 0 \/ pos.col >= cols THEN FALSE
             ELSE LET layer1 == b[pos.row][pos.col][0]
                      layer2 == b[pos.row][pos.col][1]
                      first_layer == sp[1].layer
                  IN  IF layer2 # 0 THEN FALSE
                      ELSE IF i = 1
                      THEN IF pos.layer = 0 /\ layer1 # 0 THEN FALSE
                           ELSE IF pos.layer = 1 /\ layer1 # move.player THEN FALSE
                           ELSE BoardCheck(move, b, sp, i + 1)
                      ELSE IF first_layer = 0
                      THEN IF pos.layer # 0 \/ layer1 # 0 THEN FALSE
                           ELSE BoardCheck(move, b, sp, i + 1)
                      ELSE IF pos.layer # 1 THEN FALSE
                           ELSE IF layer1 # 0 /\ layer1 # move.player THEN FALSE
                           ELSE BoardCheck(move, b, sp, i + 1)

MoveValidator_is_valid_move(move, b, blocks) ==
    IF ~validate_path(move) THEN FALSE
    ELSE IF block_size(move) = 4 /\ blocks[move.player].size4 <= 0 THEN FALSE
    ELSE IF block_size(move) = 5 /\ blocks[move.player].size5 <= 0 THEN FALSE
    ELSE LET sorted_path == IF all_same_row(move.path)
                            THEN sorted(move.path, TRUE)
                            ELSE sorted(move.path, FALSE)
         IN  IF ~BoardCheck(move, b, sorted_path, 1) THEN FALSE
             ELSE IF is_bridge_mode(move)
             THEN LET end_pos == end_position(move)
                  IN  b[end_pos.row][end_pos.col][0] = move.player
             ELSE TRUE

-----------------------------------------------------------------------------
(* PlayerBlocks (game.py) *)

PlayerBlocks(size4, size5) == [size4 |-> size4, size5 |-> size5]

has_block(pb, n) ==
    IF n = 3 THEN TRUE
    ELSE IF n = 4 THEN pb.size4 > 0
    ELSE IF n = 5 THEN pb.size5 > 0
    ELSE FALSE

\* use_block: the returned flag and the inventory after the call
use_block(pb, n) ==
    IF n = 3 THEN [ret |-> TRUE, blocks |-> pb]
    ELSE IF n = 4 /\ pb.size4 > 0
    THEN [ret |-> TRUE, blocks |-> [pb EXCEPT !.size4 = @ - 1]]
    ELSE IF n = 5 /\ pb.size5 > 0
    THEN [ret |-> TRUE, blocks |-> [pb EXCEPT !.size5 = @ - 1]]
    ELSE [ret |-> FALSE, blocks |-> pb]

-----------------------------------------------------------------------------
(* WataruToGame (game.py): the operations on a game object `self` *)

\* WataruToGame.__init__ without initial_state
NewGame(n) ==
    [size |-> n,
     board |-> EmptyBoard(n),
     current_player |-> 1,
     player_blocks |-> [p \in Players |-> PlayerBlocks(1, 1)],
     move_history |-> <<>>,
     winner |-> None,
     legal_moves_cache |-> None,
     cache_valid |-> FALSE]

\* the inner loop `for length in range(1, 5)` of get_legal_moves from the cell
\* (row, col): one more step along (dr, dc), a break on the first cell that
\* cannot be covered, a move for every path of 3 or more cells that passes the
\* end-point and inventory checks
RECURSIVE ExtendPath(_, _, _, _, _, _, _, _)
ExtendPath(self, start_layer, dr, dc, path, row, col, length) ==
    IF length >= 5 THEN <<>>
    ELSE LET player == self.current_player
             r == row + dr
             c == col + dc
         IN  IF ~is_valid_position(self.size, r, c) THEN <<>>
             ELSE LET next_layer1 == self.board[r][c][0]
                      next_layer2 == self.board[r][c][1]
                  IN  IF next_layer2 # 0 THEN <<>>
                      ELSE IF start_layer = 0 /\ next_layer1 # 0 THEN <<>>
                      ELSE IF start_layer # 0 /\ ~(next_layer1 = player \/ next_layer1 = 0)
                      THEN <<>>
                      ELSE LET path2 == Append(path, Position(r, c, start_layer))
                               listed ==
                                   /\ Len(path2) >= 3
                                   /\ (start_layer = 1 => next_layer1 = player)
                                   /\ has_block(self.player_blocks[player], Len(path2))
                                   /\ MoveConstructible(player, path2)
                           IN  (IF listed THEN <<Move(player, path2)>> ELSE <<>>)
                               \o ExtendPath(self, start_layer, dr, dc, path2,
                                             r, c, length + 1)

\* the same with runs to the left and upwards from the cell as well
MovesFromCell_all_directions(self, row, col) ==
    LET layer1 == self.board[row][col][0]
        layer2 == self.board[row][col][1]
        Along(start_layer, dr, dc) ==
            ExtendPath(self, start_layer, dr, dc,
                       <<Position(row, col, start_layer)>>, row, col, 1)
        From(start_layer) ==
            Along(start_layer, 0, 1) \o Along(start_layer, 1, 0)
            \o Along(start_layer, 0, -1) \o Along(start_layer, -1, 0)
    IN  IF layer2 # 0 THEN <<>>
        ELSE (IF layer1 = 0 THEN From(0) ELSE <<>>)
             \o (IF layer1 = self.current_player THEN From(1) ELSE <<>>)

\* the moves that start at one cell: the start layers the cell permits
\* (0 before 1), then right before down
MovesFromCell(self, row, col) ==
    LET layer1 == self.board[row][col][0]
        layer2 == self.board[row][col][1]
        From(start_layer) ==
            ExtendPath(self, start_layer, 0, 1,
                       <<Position(row, col, start_layer)>>, row, col, 1)
            \o ExtendPath(self, start_layer, 1, 0,
                          <<Position(row, col, start_layer)>>, row, col, 1)
    IN  IF layer2 # 0 THEN <<>>
        ELSE (IF layer1 = 0 THEN From(0) ELSE <<>>)
             \o (IF layer1 = self.current_player THEN From(1) ELSE <<>>)

\* the loops over row and col, in row-major order (k = row * size + col)
RECURSIVE MovesFromCells(_, _)
MovesFromCells(self, k) ==
    IF k >= self.size * self.size THEN <<>>
    ELSE MovesFromCell(self, k \div self.size, k % self.size)
         \o MovesFromCells(self, k + 1)

\* get_legal_moves past the cache test: the early return after the game ended,
\* the enumeration otherwise
EnumerateMoves(self) ==
    IF self.winner # None THEN <<>> ELSE MovesFromCells(self, 0)

\* get_legal_moves: the returned list and the object after the call; the list
\* is stored in the cache only when it was enumerated
get_legal_moves(self) ==
    IF self.cache_valid /\ self.legal_moves_cache # None
    THEN [ret |-> self.legal_moves_cache[1], self |-> self]
    ELSE IF self.winner # None
    THEN [ret |-> <<>>, self |-> self]
    ELSE LET moves == EnumerateMoves(self)
         IN  [ret |-> moves,
              self |-> [self EXCEPT !.legal_moves_cache = Some(moves),
                                    !.cache_valid = TRUE]]

\* is_valid_move without the test for a finished game
is_valid_move_ignores_winner(self, move) ==
    IF move.player # self.current_player THEN FALSE
    ELSE MoveValidator_is_valid_move(move, self.board, self.player_blocks)

\* is_valid_move without the test for the player to move
is_valid_move_ignores_turn(self, move) ==
    IF self.winner # None THEN FALSE
    ELSE MoveValidator_is_valid_move(move, self.board, self.player_blocks)

\* WataruToGame.is_valid_move
is_valid_move(self, move) ==
    IF self.winner # None THEN FALSE
    ELSE IF move.player # self.current_player THEN FALSE
    ELSE MoveValidator_is_valid_move(move, self.board, self.player_blocks)

\* the loop writing every position of the path on the base layer
RECURSIVE WritePath_on_base_layer(_, _, _, _)
WritePath_on_base_layer(b, path, i, value) ==
    IF i > Len(path) THEN b
    ELSE WritePath_on_base_layer(set_cell(b, path[i].row, path[i].col, 0, value),
                                 path, i + 1, value)

\* the loop that writes the path of a move onto the board
RECURSIVE WritePath(_, _, _, _)
WritePath(b, path, i, value) ==
    IF i > Len(path) THEN b
    ELSE WritePath(set_cell(b, path[i].row, path[i].col, path[i].layer, value),
                   path, i + 1, value)

\* the turn changes hands although the game has ended
NextPlayer_always_flips(player, w) == -player

\* the end of apply_move: the turn changes hands unless the game has ended
NextPlayer(player, w) == IF w = None THEN -player ELSE player

\* WataruToGame.apply_move: the returned flag and the object after the call
apply_move(self, move) ==
    IF ~is_valid_move(self, move) THEN [ret |-> FALSE, self |-> self]
    ELSE LET used == use_block(self.player_blocks[move.player], block_size(move))
         IN  IF ~used.ret THEN [ret |-> FALSE, self |-> self]
             ELSE LET b == WritePath(self.board, move.path, 1, move.player)
                      won == check_bridge(self.size, b, move.player)
                      w == IF won THEN Some(move.player) ELSE self.winner
                  IN  [ret |-> TRUE,
                       self |-> [self EXCEPT
                           !.player_blocks[move.player] = used.blocks,
                           !.board = b,
                           !.move_history = Append(@, move),
                           !.winner = w,
                           !.current_player = NextPlayer(@, w),
                           !.cache_valid = FALSE]]

\* the path is cleared on layer 0 whatever the layer of its positions
ClearPath_base_layer(b, path) ==
    WritePath(b, [i \in 1..Len(path) |-> [path[i] EXCEPT !.layer = 0]], 1, 0)

\* undo_last_move: the cells of the undone move are set to 0
ClearPath(b, path) == WritePath(b, path, 1, 0)

\* the block of the undone move is not given back
RestoreBlock_forgotten(pb, n) == pb

\* undo_last_move: a block of size 4 or 5 goes back to the inventory
RestoreBlock(pb, n) ==
    IF n = 4 THEN [pb EXCEPT !.size4 = @ + 1]
    ELSE IF n = 5 THEN [pb EXCEPT !.size5 = @ + 1]
    ELSE pb

\* the winner is left as it was when the move is taken back
UndoneWinner_kept(w) == w

\* `self.winner = None` of undo_last_move
UndoneWinner(w) == None

\* WataruToGame.undo_last_move
undo_last_move(self) ==
    IF Len(self.move_history) = 0 THEN [ret |-> FALSE, self |-> self]
    ELSE LET last_move == self.move_history[Len(self.move_history)]
             n == block_size(last_move)
         IN  [ret |-> TRUE,
              self |-> [self EXCEPT
                  !.move_history = SubSeq(@, 1, Len(@) - 1),
                  !.board = ClearPath(@, last_move.path),
                  !.player_blocks[last_move.player] = RestoreBlock(@, n),
                  !.current_player = last_move.player,
                  !.winner = UndoneWinner(@)]]

\* WataruToGame.reset
reset(self) ==
    [self EXCEPT
        !.board = EmptyBoard(self.size),
        !.current_player = 1,
        !.player_blocks = [p \in Players |-> PlayerBlocks(1, 1)],
        !.move_history = <<>>,
        !.winner = None,
        !.cache_valid = FALSE]

\* check_winner without the draw of a player who cannot move
check_winner_without_draw(self) ==
    IF self.winner # None THEN [ret |-> self.winner, self |-> self]
    ELSE IF check_bridge(self.size, self.board, 1)
    THEN [ret |-> Some(1), self |-> self]
    ELSE IF check_bridge(self.size, self.board, -1)
    THEN [ret |-> Some(-1), self |-> self]
    ELSE [ret |-> None, self |-> self]

\* WataruToGame.check_winner: the returned value (None as <<>>) and the object
\* after the call, whose cache get_legal_moves may have filled
check_winner(self) ==
    IF self.winner # None THEN [ret |-> self.winner, self |-> self]
    ELSE IF check_bridge(self.size, self.board, 1)
    THEN [ret |-> Some(1), self |-> self]
    ELSE IF check_bridge(self.size, self.board, -1)
    THEN [ret |-> Some(-1), self |-> self]
    ELSE LET got == get_legal_moves(self)
         IN  [ret |-> IF Len(got.ret) = 0 THEN Some(0) ELSE None,
              self |-> got.self]

is_game_over(self) == self.winner # None

\* the key of a player in the player_blocks dictionary of a state
BlocksKey(player) == IF player = 1 THEN "1" ELSE "-1"

\* WataruToGame.get_state: the state dictionary, with Board.to_dict,
\* PlayerBlocks.to_dict and Move.to_dict; the cache is not part of it
get_state(self) ==
    [board |-> [size |-> self.size, board |-> self.board],
     current_player |-> self.current_player,
     player_blocks |->
         [key \in {"1", "-1"} |->
             LET blocks == self.player_blocks[IF key = "1" THEN 1 ELSE -1]
             IN  [size4 |-> blocks.size4, size5 |-> blocks.size5]],
     move_history |->
         [i \in 1..Len(self.move_history) |->
             [player |-> self.move_history[i].player,
              path |-> [j \in 1..Len(self.move_history[i].path) |->
                           [row |-> self.move_history[i].path[j].row,
                            col |-> self.move_history[i].path[j].col,
                            layer |-> self.move_history[i].path[j].layer]]]],
     winner |-> self.winner]

\* WataruToGame.__init__ with an initial state: _load_state, with
\* Board.from_dict, PlayerBlocks.from_dict and Move.from_dict
load_state(state) ==
    [size |-> state.board.size,
     board |-> state.board.board,
     current_player |-> state.current_player,
     player_blocks |->
         [player \in Players |->
             PlayerBlocks(state.player_blocks[BlocksKey(player)].size4,
                          state.player_blocks[BlocksKey(player)].size5)],
     move_history |->
         [i \in 1..Len(state.move_history) |->
             Move(state.move_history[i].player,
                  [j \in 1..Len(state.move_history[i].path) |->
                      Position(state.move_history[i].path[j].row,
                               state.move_history[i].path[j].col,
                               state.move_history[i].path[j].layer)])],
     winner |-> state.winner,
     legal_moves_cache |-> None,
     cache_valid |-> FALSE]

\* WataruToGame.clone: a new object loaded from get_state()
clone(self) == load_state(get_state(self))

-----------------------------------------------------------------------------
(* The game object as the state of the model *)

Self ==
    [size |-> size,
     board |-> board,
     current_player |-> current_player,
     player_blocks |-> player_blocks,
     move_history |-> move_history,
     winner |-> winner,
     legal_moves_cache |-> legal_moves_cache,
     cache_valid |-> cache_valid]

\* the object is `self` after construction
StartsAs(self) ==
    /\ size = self.size
    /\ board = self.board
    /\ current_player = self.current_player
    /\ player_blocks = self.player_blocks
    /\ move_history = self.move_history
    /\ winner = self.winner
    /\ legal_moves_cache = self.legal_moves_cache
    /\ cache_valid = self.cache_valid

\* the game object is `self` after the call
GameBecomes(self) ==
    /\ size' = self.size
    /\ board' = self.board
    /\ current_player' = self.current_player
    /\ player_blocks' = self.player_blocks
    /\ move_history' = self.move_history
    /\ winner' = self.winner
    /\ legal_moves_cache' = self.legal_moves_cache
    /\ cache_valid' = self.cache_valid

\* a call on the game: the object is `self` after it, and nothing of a search
\* engine is touched
Becomes(self) == GameBecomes(self) /\ UNCHANGED searchVars /\ UNCHANGED <<cloned, playout>>

\* every straight run of `n` positions from (row, col) along (dr, dc) on `layer`
Run(row, col, dr, dc, layer, n) ==
    [i \in 1..n |-> Position(row + (i - 1) * dr, col + (i - 1) * dc, layer)]

\* bridge paths given from the far end towards the near end (decreasing
\* column or row), as a caller may send them
ReversedBridges(self) ==
    {Move(self.current_player, Run(r, c, d[1], d[2], 1, n)) :
        r \in 0..(self.size - 1), c \in 0..(self.size - 1),
        d \in {<<0, -1>>, <<-1, 0>>}, n \in 3..5}

\* the moves callers pass to apply_move: the listed legal moves, and bridge
\* paths in reversed order
MoveInputs(self) == Range(EnumerateMoves(self)) \cup ReversedBridges(self)

\* the longest history explored on a board of size n
MoveBound(n) == MaxMoves - LargeBoardCut * (n - SmallBoard)

\* WataruToGame.from_game_record: a new game on which the recorded moves are
\* applied in order
RECURSIVE ApplyRecorded(_, _, _)
ApplyRecorded(self, moves, i) ==
    IF i > Len(moves) THEN self
    ELSE ApplyRecorded(apply_move(self, moves[i]).self, moves, i + 1)

from_game_record(n, moves) == ApplyRecorded(NewGame(n), moves, 1)

\* the number of non-empty slots of a board
Tiles(n, b) ==
    Cardinality({slot \in (0..(n - 1)) \X (0..(n - 1)) \X (0..1) :
                    b[slot[1]][slot[2]][slot[3]] # 0})

\* the default of the parameter exploration_weight, of MCTS.__init__ and of
\* MCTSNode.ucb1 alike, in hundredths
DefaultExplorationWeight == 141

\* MCTSStats: the counters of a search (the elapsed time and the win rate,
\* which are floats, are left out)
MCTSStats == [nodes_explored |-> 0, simulations_run |-> 0, best_move_visits |-> 0]

\* MCTS.__init__: the configuration the search reads (time_limit is a wall
\* clock limit, which the model meets as a clock that may run out at any
\* check; verbose and the debug switches only print)
MCTS(exploration_weight, max_simulations, use_tactical_heuristics) ==
    [exploration_weight |-> exploration_weight,
     max_simulations |-> max_simulations,
     use_tactical_heuristics |-> use_tactical_heuristics,
     stats |-> MCTSStats]

\* an engine with the default configuration exists, no search is running and
\* no clone was made
NoSearch ==
    /\ mcts = MCTS(DefaultExplorationWeight, None, TRUE)
    /\ nodes = <<>>
    /\ pc = "idle"
    /\ simulation_count = 0
    /\ returned = None
    /\ time_up = FALSE
    /\ cloned = None
    /\ playout = None

Init == NoSearch /\ \E n \in BoardSizes : StartsAs(NewGame(n))

\* a caller applies a move while the history is shorter than `bound`
ApplyMove(bound) ==
    /\ Len(move_history) < bound
    /\ \E move \in MoveInputs(Self) : Becomes(apply_move(Self, move).self)

\* a caller applies a move of the list get_legal_moves enumerates, as the
\* players of the test scripts do
ApplyListedMove(bound) ==
    /\ Len(move_history) < bound
    /\ \E move \in Range(EnumerateMoves(Self)) :
          Becomes(apply_move(Self, move).self)

UndoLastMove == Becomes(undo_last_move(Self).self)

Reset == Becomes(reset(Self))

\* a caller asks for the legal moves
GetLegalMoves == Becomes(get_legal_moves(Self).self)

\* a cell is written directly, as the bridge detection test does
SetCell ==
    \E row \in 0..(size - 1), col \in 0..(size - 1),
       layer \in 0..1, value \in {0, 1, -1} :
        /\ Tiles(size, set_cell(board, row, col, layer, value)) <= MaxTiles
        /\ board' = set_cell(board, row, col, layer, value)
        /\ UNCHANGED <<size, current_player, player_blocks, move_history,
                       winner, legal_moves_cache, cache_valid>>
        /\ UNCHANGED searchVars
        /\ UNCHANGED <<cloned, playout>>

\* Board.reset
BoardReset ==
    /\ board' = EmptyBoard(size)
    /\ UNCHANGED <<size, current_player, player_blocks, move_history,
                   winner, legal_moves_cache, cache_valid>>
    /\ UNCHANGED searchVars
    /\ UNCHANGED <<cloned, playout>>

\* games played by apply_move, undo_last_move and reset
Next == ApplyMove(MoveBound(size)) \/ UndoLastMove \/ Reset

Spec == Init /\ [][Next]_vars

\* the same with get_legal_moves calls in between
NextCache ==
    ApplyMove(MaxCacheMoves) \/ UndoLastMove \/ Reset \/ GetLegalMoves

SpecCache == Init /\ [][NextCache]_vars

\* boards written cell by cell on the smallest board
InitBoard == NoSearch /\ StartsAs(NewGame(MinBoardSize))

NextBoard == SetCell \/ BoardReset

SpecBoard == InitBoard /\ [][NextBoard]_vars

\* games played on from a recorded opening on the small board with moves
\* taken from the list of legal moves
Opening ==
    << Move(1, Run(0, 0, 0, 1, 0, 3)), Move(-1, Run(1, 0, 0, 1, 0, 3)) >>

InitEndgame == NoSearch /\ StartsAs(from_game_record(SmallBoard, Opening))

NextEndgame == ApplyListedMove(MaxEndgameMoves)

SpecEndgame == InitEndgame /\ [][NextEndgame]_vars

\* the longest history of a game and of its clone
MaxCloneMoves == 4

\* the object clone() returns for `self`, and the mutable parts of `self` it
\* refers to: none, because to_dict and from_dict build every list and
\* every object anew
Restored_sharing_the_board(self) == [game |-> clone(self), shares |-> {"board"}]

Restored(self) == [game |-> clone(self), shares |-> {}]

\* `self` as it is seen after a call that left `other` behind, when the two
\* objects refer to the same parts `shares`
Follows(self, other, shares) ==
    [self EXCEPT
        !.board = IF "board" \in shares THEN other.board ELSE @,
        !.player_blocks =
            IF "player_blocks" \in shares THEN other.player_blocks ELSE @,
        !.move_history =
            IF "move_history" \in shares THEN other.move_history ELSE @]

\* a caller clones the game
CloneGame ==
    /\ cloned = None
    /\ cloned' = Some(Restored(Self))
    /\ UNCHANGED gameVars
    /\ UNCHANGED searchVars
    /\ UNCHANGED playout

\* a call on the game that leaves it as `self`
OnOriginal(self) ==
    /\ GameBecomes(self)
    /\ cloned' = IF cloned = None THEN None
                 ELSE Some([cloned[1] EXCEPT
                               !.game = Follows(@, self, cloned[1].shares)])
    /\ UNCHANGED searchVars
    /\ UNCHANGED playout

\* a call on the clone that leaves it as `copy`
OnClone(copy) ==
    /\ cloned # None
    /\ cloned' = Some([cloned[1] EXCEPT !.game = copy])
    /\ GameBecomes(Follows(Self, copy, cloned[1].shares))
    /\ UNCHANGED searchVars
    /\ UNCHANGED playout

\* (the callers play on from the recorded opening and take back no move of
\* it; after a reset they stop)
ApplyMoveOriginal ==
    /\ Len(Opening) <= Len(move_history)
    /\ Len(move_history) < MaxCloneMoves
    /\ \E move \in MoveInputs(Self) : OnOriginal(apply_move(Self, move).self)

UndoOriginal ==
    /\ Len(move_history) > Len(Opening)
    /\ OnOriginal(undo_last_move(Self).self)

ResetOriginal == OnOriginal(reset(Self))

ApplyMoveClone ==
    /\ cloned # None
    /\ Len(Opening) <= Len(cloned[1].game.move_history)
    /\ Len(cloned[1].game.move_history) < MaxCloneMoves
    /\ \E move \in MoveInputs(cloned[1].game) :
          OnClone(apply_move(cloned[1].game, move).self)

UndoClone ==
    /\ cloned # None
    /\ Len(cloned[1].game.move_history) > Len(Opening)
    /\ OnClone(undo_last_move(cloned[1].game).self)

ResetClone == cloned # None /\ OnClone(reset(cloned[1].game))

\* a game on the small board after the recorded opening and its clone, each
\* played on by apply_move, undo_last_move and reset
InitClone == NoSearch /\ StartsAs(from_game_record(SmallBoard, Opening))

NextClone ==
    \/ CloneGame
    \/ ApplyMoveOriginal \/ UndoOriginal \/ ResetOriginal
    \/ ApplyMoveClone \/ UndoClone \/ ResetClone

SpecClone == InitClone /\ [][NextClone]_vars

-----------------------------------------------------------------------------
(* MCTSNode and the search tree (ai/mcts.py).  The tree is the sequence of  *)
(* its nodes in the order of their creation: the root is node 1, a node     *)
(* names its parent and its children by their index, and parent = 0 stands  *)
(* for no parent.  wins is counted in halves (a win 2, a draw 1, a loss 0), *)
(* so that it stays an integer.                                            *)

\* MCTSNode.__init__: untried_moves is what get_legal_moves returns, which
\* fills the cache of the node's game state with the same list
MCTSNode(game_state, parent, move) ==
    LET got == get_legal_moves(game_state)
    IN  [game_state |-> got.self,
         parent |-> parent,
         move |-> move,
         children |-> <<>>,
         untried_moves |-> got.ret,
         visits |-> 0,
         wins |-> 0,
         player |-> game_state.current_player]

is_fully_expanded(node) == Len(node.untried_moves) = 0

is_terminal(node) == node.game_state.winner # None

\* UCB1 scores are kept in thousandths
UcbScale == 1000

\* float('inf'): larger than every score of a visited node
Infinity == 1000000000

\* math.log of 1..12, in thousandths
Ln == <<0, 693, 1099, 1386, 1609, 1792, 1946, 2079, 2197, 2303, 2398, 2485>>

\* math.sqrt on integers: the largest r in lo..hi with r * r <= n
RECURSIVE SqrtBetween(_, _, _)
SqrtBetween(n, lo, hi) ==
    IF lo >= hi THEN lo
    ELSE LET mid == (lo + hi + 1) \div 2
         IN  IF mid * mid <= n THEN SqrtBetween(n, mid, hi)
             ELSE SqrtBetween(n, lo, mid - 1)

\* (the search stops at 46340, the largest integer whose square fits 32 bits)
sqrt(n) == SqrtBetween(n, 0, IF n < 46340 THEN n ELSE 46340)

\* the same with a score of zero for a node without visits
ucb1_unvisited_scores_zero(tree, k, exploration_weight) ==
    LET node == tree[k]
    IN  IF node.visits = 0 THEN 0
        ELSE LET exploitation == (node.wins * UcbScale) \div (2 * node.visits)
                 exploration ==
                     (exploration_weight
                        * sqrt((Ln[tree[node.parent].visits] * UcbScale)
                                  \div node.visits)) \div 100
             IN  exploitation + exploration

\* MCTSNode.ucb1 of node k of the tree, in thousandths, with the exploration
\* weight in hundredths
ucb1(tree, k, exploration_weight) ==
    LET node == tree[k]
    IN  IF node.visits = 0 THEN Infinity
        ELSE LET exploitation == (node.wins * UcbScale) \div (2 * node.visits)
                 exploration ==
                     (exploration_weight
                        * sqrt((Ln[tree[node.parent].visits] * UcbScale)
                                  \div node.visits)) \div 100
             IN  exploitation + exploration

\* max(list, key=...): the index of the first element with the largest key
IndexOfMax(keys) ==
    CHOOSE i \in 1..Len(keys) :
        /\ \A j \in 1..Len(keys) : keys[j] <= keys[i]
        /\ \A j \in 1..(i - 1) : keys[j] < keys[i]

\* MCTSNode.select_child: ucb1 is called without an argument, so with its
\* default weight
select_child(tree, k) ==
    LET children == tree[k].children
    IN  children[IndexOfMax([i \in 1..Len(children) |->
                                ucb1(tree, children[i], DefaultExplorationWeight)])]

\* the selection loop of _simulate_once
RECURSIVE Selection(_, _)
Selection(tree, k) ==
    IF /\ ~is_terminal(tree[k])
       /\ is_fully_expanded(tree[k])
       /\ tree[k].children # <<>>
    THEN Selection(tree, select_child(tree, k))
    ELSE k

\* the element is read and left in the list
Pop_leaves_the_element(s, i) == s

\* list.pop(i), with i counted from 1
Pop(s, i) == SubSeq(s, 1, i - 1) \o SubSeq(s, i + 1, Len(s))

\* the move is applied to the object itself, which is the new state too
ApplyOnClone_in_place(game_state, move) ==
    LET applied == apply_move(game_state, move).self
    IN  [game_state |-> applied, new_state |-> applied]

\* `new_state = self.game_state.clone(); new_state.apply_move(move)`: the
\* game state of the node and the new state after the two statements
ApplyOnClone(game_state, move) ==
    [game_state |-> game_state,
     new_state |-> apply_move(clone(game_state), move).self]

\* MCTSNode.expand on node k when random.randint picks the i-th untried move:
\* the tree after the call and the index of the new child.  untried_moves
\* is the list get_legal_moves returned, which is the list the game state
\* of the node keeps as its cache: the pop shortens both.
expand(tree, k, i) ==
    LET move == tree[k].untried_moves[i]
        rest == Pop(tree[k].untried_moves, i)
        popped == [tree[k].game_state EXCEPT !.legal_moves_cache = Some(rest)]
        made == ApplyOnClone(popped, move)
        child == MCTSNode(made.new_state, k, Some(move))
    IN  [tree |-> Append([tree EXCEPT ![k].untried_moves = rest,
                                      ![k].game_state = made.game_state,
                                      ![k].children = Append(@, Len(tree) + 1)],
                         child),
         node |-> Len(tree) + 1]

\* the same with the result handed to the parent as it is
RECURSIVE backpropagate_same_result(_, _, _)
backpropagate_same_result(tree, k, result) ==
    LET tree2 == [tree EXCEPT ![k].visits = @ + 1, ![k].wins = @ + result]
    IN  IF tree[k].parent # 0
        THEN backpropagate_same_result(tree2, tree[k].parent, result)
        ELSE tree2

\* the result is counted at node k and not passed on to its parent
backpropagate_leaf_only(tree, k, result) ==
    [tree EXCEPT ![k].visits = @ + 1, ![k].wins = @ + result]

\* MCTSNode.backpropagate from node k with `result` in halves
RECURSIVE backpropagate(_, _, _)
backpropagate(tree, k, result) ==
    LET tree2 == [tree EXCEPT ![k].visits = @ + 1, ![k].wins = @ + result]
    IN  IF tree[k].parent # 0
        THEN backpropagate(tree2, tree[k].parent, 2 - result)
        ELSE tree2

\* MCTS._count_nodes
RECURSIVE count_nodes(_, _)
RECURSIVE CountChildren(_, _, _)
count_nodes(tree, k) == 1 + CountChildren(tree, tree[k].children, 1)
CountChildren(tree, children, i) ==
    IF i > Len(children) THEN 0
    ELSE count_nodes(tree, children[i]) + CountChildren(tree, children, i + 1)

-----------------------------------------------------------------------------
(* The tactical scans and the playouts of the engine (ai/mcts.py).  A       *)
(* playout picks its moves with random.choice: the model gives the set of   *)
(* the results it can return.                                              *)

\* the moves of `moves` after which `player` has won, in the order of the
\* list: each is tried on a clone of test_game
WinningMoves(test_game, moves, player) ==
    LET Wins(m) == apply_move(clone(test_game), m).self.winner = Some(player)
    IN  SelectSeq(moves, Wins)

\* the same statements on the object itself instead of a clone
HandOver_without_clone(game_state) ==
    LET handed == [game_state EXCEPT !.current_player = -game_state.current_player]
    IN  [game_state |-> handed, test_game |-> handed]

\* `test_game = game_state.clone(); test_game.current_player = opponent`:
\* the caller's object and the test object after the two statements
HandOver(game_state) ==
    [game_state |-> game_state,
     test_game |-> [clone(game_state) EXCEPT
                       !.current_player = -game_state.current_player]]

\* the scan for winning replies of the opponent, who is handed the move on a
\* clone (it is written twice in the source, in search and in
\* _find_blocking_move)
opponent_winning_moves(game_state) ==
    LET opponent == -game_state.current_player
        test_game == HandOver(game_state).test_game
    IN  WinningMoves(test_game, get_legal_moves(test_game).ret, opponent)

\* the number of legal moves _find_winning_move looks at
MaxCheck == 30

\* the scan that keeps the last winning move it meets instead of returning
\* the first
find_winning_move_last(game_state, legal_moves) ==
    LET check_count == IF MaxCheck < Len(legal_moves) THEN MaxCheck
                       ELSE Len(legal_moves)
        found == WinningMoves(game_state, SubSeq(legal_moves, 1, check_count),
                              game_state.current_player)
    IN  IF found = <<>> THEN None ELSE Some(found[Len(found)])

\* MCTS._find_winning_move
find_winning_move(game_state, legal_moves) ==
    LET check_count == IF MaxCheck < Len(legal_moves) THEN MaxCheck
                       ELSE Len(legal_moves)
        found == WinningMoves(game_state, SubSeq(legal_moves, 1, check_count),
                              game_state.current_player)
    IN  IF found = <<>> THEN None ELSE Some(found[1])

\* the inner loop of _find_blocking_move: the opponent still has a winning
\* reply after my_move was tried on a clone
opponent_can_still_win(game_state, my_move) ==
    LET opponent == -game_state.current_player
        test_game == apply_move(clone(game_state), my_move).self
        opponent_moves_after == get_legal_moves(test_game).ret
    IN  WinningMoves(test_game, opponent_moves_after, opponent) # <<>>

\* MCTS._find_blocking_move
find_blocking_move(game_state, legal_moves) ==
    IF opponent_winning_moves(game_state) = <<>> THEN None
    ELSE LET Blocks(m) == ~opponent_can_still_win(game_state, m)
             found == SelectSeq(legal_moves, Blocks)
         IN  IF found = <<>> THEN None ELSE Some(found[1])

\* the longest playout
PlayoutCap == 100

\* a playout without a winner returns the player to move
PlayoutResult_player_to_move(game_state) ==
    IF game_state.winner = None THEN game_state.current_player
    ELSE game_state.winner[1]

\* what a playout returns on leaving its loop
PlayoutResult(game_state) ==
    IF game_state.winner = None THEN 0 ELSE game_state.winner[1]

\* MCTS._simulate_pure_random_playout
RECURSIVE simulate_pure_random_playout(_, _)
simulate_pure_random_playout(game_state, move_count) ==
    IF ~(game_state.winner = None /\ move_count < PlayoutCap)
    THEN {PlayoutResult(game_state)}
    ELSE LET got == get_legal_moves(game_state)
         IN  IF got.ret = <<>> THEN {PlayoutResult(got.self)}
             ELSE UNION {simulate_pure_random_playout(
                             apply_move(got.self, move).self, move_count + 1) :
                         move \in Range(got.ret)}

\* MCTS._simulate_tactical_playout
RECURSIVE simulate_tactical_playout(_, _)
simulate_tactical_playout(game_state, move_count) ==
    IF ~(game_state.winner = None /\ move_count < PlayoutCap)
    THEN {PlayoutResult(game_state)}
    ELSE LET got == get_legal_moves(game_state)
             winning_move == find_winning_move(got.self, got.ret)
         IN  IF got.ret = <<>> THEN {PlayoutResult(got.self)}
             ELSE IF winning_move # None
             THEN simulate_tactical_playout(
                      apply_move(got.self, winning_move[1]).self, move_count + 1)
             ELSE UNION {simulate_tactical_playout(
                             apply_move(got.self, move).self, move_count + 1) :
                         move \in Range(got.ret)}

\* MCTS._simulate_random_playout
simulate_random_playout(engine, game_state) ==
    IF engine.use_tactical_heuristics
    THEN simulate_tactical_playout(game_state, 0)
    ELSE simulate_pure_random_playout(game_state, 0)

-----------------------------------------------------------------------------
(* MCTS.search (ai/mcts.py) as a state machine.  pc is the position of the  *)
(* call: "idle" before it, "loop" at the top of the simulation loop, and    *)
(* the return statement it left through afterwards.                        *)

\* the test `if not root.untried_moves and not root.children` always passes
HasNoMoves_never(root) == FALSE

\* the test `if not root.untried_moves and not root.children`
HasNoMoves(root) == root.untried_moves = <<>> /\ root.children = <<>>

\* the truth value Python gives max_simulations: None and 0 are false
Truthy(max_simulations) == max_simulations # None /\ max_simulations[1] # 0

\* the last of the children with the most visits
BestChild_last_of_ties(tree) ==
    LET children == tree[1].children
        most == CHOOSE v \in {tree[children[i]].visits : i \in 1..Len(children)} :
                    \A i \in 1..Len(children) : tree[children[i]].visits <= v
    IN  children[CHOOSE i \in 1..Len(children) :
                    /\ tree[children[i]].visits = most
                    /\ \A j \in (i + 1)..Len(children) : tree[children[j]].visits < most]

\* max(root.children, key=lambda child: child.visits)
BestChild(tree) ==
    LET children == tree[1].children
    IN  children[IndexOfMax([i \in 1..Len(children) |-> tree[children[i]].visits])]

\* the start of search: the root is built on a clone; a root without moves
\* returns None; with tactical heuristics and a winning reply of the
\* opponent the blocking move, if there is one, is returned at once.  The
\* caller's object is what the scans and get_legal_moves leave of it.
SearchBegin ==
    /\ pc = "idle"
    /\ UNCHANGED <<cloned, playout>>
    /\ LET root == MCTSNode(clone(Self), 0, None)
           engine == [mcts EXCEPT !.stats = MCTSStats]
           threatened == /\ mcts.use_tactical_heuristics
                         /\ opponent_winning_moves(Self) # <<>>
           scanned == HandOver(Self).game_state
           got == get_legal_moves(scanned)
           blocking_move == find_blocking_move(got.self, got.ret)
           defended == HandOver(got.self).game_state
       IN  /\ nodes' = <<root>>
           /\ simulation_count' = 0
           /\ time_up' = FALSE
           /\ IF HasNoMoves(root)
              THEN /\ pc' = "return_no_moves"
                   /\ returned' = None
                   /\ mcts' = engine
                   /\ UNCHANGED gameVars
              ELSE IF threatened /\ blocking_move # None
              THEN /\ pc' = "return_blocking_move"
                   /\ returned' = blocking_move
                   /\ mcts' = [engine EXCEPT !.stats.simulations_run = 0,
                                             !.stats.nodes_explored = 1,
                                             !.stats.best_move_visits = 1]
                   /\ GameBecomes(defended)
              ELSE /\ pc' = "loop"
                   /\ returned' = None
                   /\ mcts' = engine
                   /\ IF threatened THEN GameBecomes(defended)
                      ELSE IF mcts.use_tactical_heuristics
                      THEN GameBecomes(scanned)
                      ELSE UNCHANGED gameVars

\* MCTS._simulate_once when random.randint picks the i-th untried move of
\* the selected node and the playout returns `result`
simulate_once(tree, i, result) ==
    LET selected == Selection(tree, 1)
        expands == ~is_terminal(tree[selected]) /\ ~is_fully_expanded(tree[selected])
        expanded == IF expands THEN expand(tree, selected, i)
                    ELSE [tree |-> tree, node |-> selected]
        node == expanded.tree[expanded.node]
        node_result == IF result = node.player THEN 2
                       ELSE IF result = 0 THEN 1
                       ELSE 0
    IN  backpropagate(expanded.tree, expanded.node, node_result)

\* the node a simulation plays out from when the i-th untried move is picked
PlayoutNode(tree, i) ==
    LET selected == Selection(tree, 1)
    IN  IF ~is_terminal(tree[selected]) /\ ~is_fully_expanded(tree[selected])
        THEN LET expanded == expand(tree, selected, i)
             IN  expanded.tree[expanded.node]
        ELSE tree[selected]

\* one pass of the loop: neither limit is reached and a simulation runs
SimulateOnce ==
    /\ pc = "loop"
    /\ ~(Truthy(mcts.max_simulations) /\ simulation_count >= mcts.max_simulations[1])
    /\ simulation_count < MaxSimulations
    /\ LET selected == nodes[Selection(nodes, 1)]
           picks == IF ~is_terminal(selected) /\ ~is_fully_expanded(selected)
                    THEN 1..Len(selected.untried_moves) ELSE {1}
       IN  \E i \in picks :
             \E result \in simulate_random_playout(
                               mcts, clone(PlayoutNode(nodes, i).game_state)) :
                nodes' = simulate_once(nodes, i, result)
    /\ simulation_count' = simulation_count + 1
    /\ UNCHANGED <<gameVars, mcts, pc, returned, time_up, cloned, playout>>

\* the end of search after the loop: the counters, and the move of the most
\* visited child of the root, or None when the root has no child
SearchEnd(by_time) ==
    LET root == nodes[1]
        best_child == nodes[BestChild(nodes)]
    IN  /\ time_up' = by_time
        /\ pc' = "return_best_move"
        /\ mcts' = [mcts EXCEPT
                       !.stats.simulations_run = simulation_count,
                       !.stats.nodes_explored = count_nodes(nodes, 1),
                       !.stats.best_move_visits =
                           IF root.children = <<>> THEN @ ELSE best_child.visits]
        /\ returned' = IF root.children = <<>> THEN None ELSE best_child.move
        /\ UNCHANGED <<gameVars, nodes, simulation_count, cloned, playout>>

\* the loop leaves through the time check
TimeUp == pc = "loop" /\ SearchEnd(TRUE)

\* the loop leaves through the check of max_simulations
CapReached ==
    /\ pc = "loop"
    /\ Truthy(mcts.max_simulations)
    /\ simulation_count >= mcts.max_simulations[1]
    /\ SearchEnd(FALSE)

\* the positions a search is called on: the new game on the smallest board,
\* the game after a horizontal and after a vertical opening move there, and
\* two late positions on the small board, one in which player 1 is threatened
\* and one in which player -1 has no move
SearchRecords ==
    { <<MinBoardSize, <<>> >>,
      <<MinBoardSize, << Move(1, Run(0, 0, 0, 1, 0, 3)) >> >>,
      <<MinBoardSize, << Move(1, Run(0, 0, 1, 0, 0, 3)) >> >>,
      <<SmallBoard, << Move(1, Run(3, 0, 0, 1, 0, 3)), Move(-1, Run(1, 3, 1, 0, 0, 3)),
                       Move(1, Run(1, 0, 0, 1, 0, 3)), Move(-1, Run(0, 1, 0, 1, 0, 3)),
                       Move(1, Run(3, 0, 0, 1, 1, 3)), Move(-1, Run(0, 3, 1, 0, 1, 3)) >> >>,
      <<SmallBoard, Opening \o << Move(1, Run(2, 0, 0, 1, 0, 4)),
                                  Move(-1, Run(1, 0, 0, 1, 1, 3)),
                                  Move(1, Run(3, 0, 0, 1, 0, 3)) >> >> }

\* a board with a list of legal moves that is out of date: on the smallest
\* board a move was applied, the legal moves were listed and the move was
\* taken back
UndoneRoot ==
    LET played == from_game_record(MinBoardSize, << Move(1, Run(0, 0, 0, 1, 0, 3)) >>)
    IN  undo_last_move(get_legal_moves(played).self).self

\* the game objects search is called on
SearchRoots ==
    {from_game_record(record[1], record[2]) : record \in SearchRecords}
    \cup {UndoneRoot}

\* the exploration weights engines are configured with, in hundredths
ExplorationWeights == {0, DefaultExplorationWeight}

\* the engines callers construct
Engines ==
    {MCTS(c, n, t) : c \in ExplorationWeights,
                     n \in {None} \cup {Some(k) : k \in 0..MaxSimulations},
                     t \in BOOLEAN}

InitSearch ==
    /\ \E root \in SearchRoots : StartsAs(root)
    /\ mcts \in Engines
    /\ nodes = <<>>
    /\ pc = "idle"
    /\ simulation_count = 0
    /\ returned = None
    /\ time_up = FALSE
    /\ cloned = None
    /\ playout = None

NextSearch == SearchBegin \/ SimulateOnce \/ TimeUp \/ CapReached

SpecSearch == InitSearch /\ [][NextSearch]_vars

-----------------------------------------------------------------------------
(* The tree built by calls of MCTSNode.expand and MCTSNode.backpropagate in *)
(* any order, as a caller of the class may make them                        *)

\* the largest tree and the largest number of visits of its root
MaxTreeNodes == 4
MaxTreeVisits == 3

\* the positions the root is built on: the games after one opening move on
\* the smallest board, and the late position of the small board in which
\* player 1 is threatened
TreeRoots ==
    {from_game_record(record[1], record[2]) :
        record \in {r \in SearchRecords : Len(r[2]) \in {1, 6}}}

InitTree ==
    /\ \E root \in TreeRoots :
          /\ StartsAs(root)
          /\ nodes = << MCTSNode(clone(root), 0, None) >>
    /\ mcts = MCTS(DefaultExplorationWeight, None, TRUE)
    /\ pc = "idle"
    /\ simulation_count = 0
    /\ returned = None
    /\ time_up = FALSE
    /\ cloned = None
    /\ playout = None

\* MCTSNode.expand is called on a node that has an untried move
Expand ==
    /\ Len(nodes) < MaxTreeNodes
    /\ \E k \in 1..Len(nodes) :
          /\ ~is_fully_expanded(nodes[k])
          /\ \E i \in 1..Len(nodes[k].untried_moves) :
                nodes' = expand(nodes, k, i).tree
    /\ UNCHANGED <<gameVars, mcts, pc, simulation_count, returned, time_up, cloned, playout>>

\* MCTSNode.backpropagate is called on a node with a win, a draw or a loss
Backpropagate ==
    /\ nodes[1].visits < MaxTreeVisits
    /\ \E k \in 1..Len(nodes), result \in 0..2 :
          nodes' = backpropagate(nodes, k, result)
    /\ UNCHANGED <<gameVars, mcts, pc, simulation_count, returned, time_up, cloned, playout>>

NextTree == Expand \/ Backpropagate

SpecTree == InitTree /\ [][NextTree]_vars

-----------------------------------------------------------------------------
(* One playout call, step by step: the game object is the argument of      *)
(* _simulate_random_playout (a clone of a node's state), and playout holds  *)
(* the history length at the call, move_count and the returned value.       *)

\* the positions playouts start from: those searches are called on, and the
\* recorded opening on the small board
PlayoutStarts ==
    {from_game_record(record[1], record[2]) : record \in SearchRecords}
    \cup {from_game_record(SmallBoard, Opening)}

InitPlayout ==
    /\ \E start \in PlayoutStarts : StartsAs(clone(start))
    /\ mcts \in {MCTS(DefaultExplorationWeight, None, tactical) :
                    tactical \in BOOLEAN}
    /\ nodes = <<>>
    /\ pc = "idle"
    /\ simulation_count = 0
    /\ returned = None
    /\ time_up = FALSE
    /\ cloned = None
    /\ playout = Some([start |-> Len(move_history), move_count |-> 0,
                       result |-> None])

\* one pass of the loop of the playout: with tactical heuristics a winning
\* move is played when _find_winning_move finds one, otherwise
\* random.choice picks any legal move
PlayoutMove ==
    /\ playout # None
    /\ playout[1].result = None
    /\ winner = None
    /\ playout[1].move_count < PlayoutCap
    /\ LET got == get_legal_moves(Self)
           winning_move == find_winning_move(got.self, got.ret)
           choices == IF mcts.use_tactical_heuristics /\ winning_move # None
                      THEN {winning_move[1]}
                      ELSE Range(got.ret)
       IN  /\ got.ret # <<>>
           /\ \E move \in choices : GameBecomes(apply_move(got.self, move).self)
    /\ playout' = Some([playout[1] EXCEPT !.move_count = @ + 1])
    /\ UNCHANGED <<searchVars, cloned>>

\* the loop is left, by its condition or by the break on an empty list of
\* legal moves, and the playout returns
PlayoutReturn ==
    /\ playout # None
    /\ playout[1].result = None
    /\ LET loops == winner = None /\ playout[1].move_count < PlayoutCap
           got == get_legal_moves(Self)
       IN  /\ loops => got.ret = <<>>
           /\ GameBecomes(IF loops THEN got.self ELSE Self)
    /\ playout' = Some([playout[1] EXCEPT !.result = Some(PlayoutResult(Self))])
    /\ UNCHANGED <<searchVars, cloned>>

NextPlayout == PlayoutMove \/ PlayoutReturn

SpecPlayout == InitPlayout /\ [][NextPlayout]_vars

\* what a statement of the loop, or the return, does to the record of the
\* call: one more move is counted, or the value is returned
PlayoutStep ==
    /\ playout # None
    /\ playout[1].result = None
    /\ playout' \in {Some([playout[1] EXCEPT !.move_count = @ + 1])}
                     \cup {Some([playout[1] EXCEPT !.result = Some(value)]) :
                              value \in {1, -1, 0}}

\* the call runs on: a playout that has not returned does not stop between
\* two statements for ever (PlayoutMove and PlayoutReturn are the only steps
\* that change the record, and one of them is possible until the return)
SpecPlayoutFair == SpecPlayout /\ WF_playout(PlayoutStep)

-----------------------------------------------------------------------------
(* Tactical playouts alone, also from a position on the large board whose   *)
(* only winning move comes late in the list of legal moves                  *)

LargeBoard == CHOOSE n \in BoardSizes : \A m \in BoardSizes : m <= n

\* player 1 has covered rows 0 to 3 of column 0 of the large board: player -1
\* wins with the run of 5 along the last row, a move of the last cells of
\* the enumeration
LateWin == from_game_record(LargeBoard, << Move(1, Run(0, 0, 1, 0, 0, 4)) >>)

InitTactical ==
    /\ \E start \in PlayoutStarts \cup {LateWin} : StartsAs(clone(start))
    /\ mcts = MCTS(DefaultExplorationWeight, None, TRUE)
    /\ nodes = <<>>
    /\ pc = "idle"
    /\ simulation_count = 0
    /\ returned = None
    /\ time_up = FALSE
    /\ cloned = None
    /\ playout = Some([start |-> Len(move_history), move_count |-> 0,
                       result |-> None])

\* the passes of the loop followed on the large board
MaxLatePlies == 2

\* a pass of the loop of the tactical playout
TacticalMove ==
    /\ playout # None
    /\ size = LargeBoard => playout[1].move_count < MaxLatePlies
    /\ PlayoutMove

NextTactical == TacticalMove \/ PlayoutReturn

SpecTactical == InitTactical /\ [][NextTactical]_vars

-----------------------------------------------------------------------------
(* The moves the properties are probed with in every reachable state *)

AllDirections == {<<0, 1>>, <<1, 0>>, <<0, -1>>, <<-1, 0>>}

\* straight runs of 3 to 5 positions from every cell of the board in the four
\* directions, on either layer; runs near an edge leave the board
StraightPaths(n) ==
    {Run(r, c, d[1], d[2], l, k) :
        r \in 0..(n - 1), c \in 0..(n - 1), d \in AllDirections,
        l \in 0..1, k \in 3..5}

\* malformed variants of the runs of 3 to the right and downwards: out of
\* order, with a gap, bent, with a repeated cell, with mixed layers
MalformedPaths(n) ==
    UNION {LET run == Run(r, c, d[1], d[2], l, 3)
           IN  {<<run[2], run[1], run[3]>>,
                <<run[1], run[2], Position(r + 3 * d[1], c + 3 * d[2], l)>>,
                <<run[1], run[2], Position(r + d[1] + d[2], c + d[2] + d[1], l)>>,
                <<run[1], run[2], run[2]>>,
                <<run[1], run[2], [run[3] EXCEPT !.layer = 1 - l]>>} :
           r \in 0..(n - 1), c \in 0..(n - 1),
           d \in {<<0, 1>>, <<1, 0>>}, l \in 0..1}

\* the probe paths of every board size
ProbePaths ==
    [n \in BoardSizes \cup {MinBoardSize} |->
        StraightPaths(n) \cup MalformedPaths(n)]

OnBoard(n, path) ==
    \A i \in 1..Len(path) : is_valid_position(n, path[i].row, path[i].col)

\* the probe paths that lie on the board and cover a straight run of cells on
\* one layer, in increasing, decreasing or mixed order
BoardPaths ==
    [n \in BoardSizes \cup {MinBoardSize} |->
        {path \in ProbePaths[n] :
            /\ OnBoard(n, path)
            /\ validate_path(Move(1, path))
            /\ \A i \in 1..Len(path) : path[i].layer = path[1].layer}]

\* a recorded opening on the small board in which the rows of the two
\* players alternate, so that a run down a column crosses the other colour
\* in columns 1 and 2 and an empty cell in column 0
Crossing ==
    << Move(1, Run(0, 0, 0, 1, 0, 3)), Move(-1, Run(1, 1, 0, 1, 0, 3)),
       Move(1, Run(2, 0, 0, 1, 0, 3)) >>

\* the longest history of the games played with probe moves
MaxProbeMoves == 5

IsPrefix(s, t) == Len(s) <= Len(t) /\ SubSeq(t, 1, Len(s)) = s

\* apply_move called with any move a caller can construct, by either
\* player; below the recorded opening the game follows the record
ApplyProbed ==
    /\ Len(move_history) < MaxProbeMoves
    /\ \E player \in Players, path \in ProbePaths[size] :
          /\ MoveConstructible(player, path)
          /\ IF IsPrefix(Crossing, move_history) THEN TRUE
             ELSE Move(player, path) = Crossing[Len(move_history) + 1]
          /\ Becomes(apply_move(Self, Move(player, path)).self)

InitProbe == NoSearch /\ StartsAs(from_game_record(SmallBoard, Crossing))

NextProbe == ApplyProbed \/ UndoLastMove \/ Reset

SpecProbe == InitProbe /\ [][NextProbe]_vars

\* whole games without undo_last_move and reset: the loop of
\* play_game_random_vs_random, on the smallest board from the new game and
\* on the small board from a recorded opening, and callers who apply bridge
\* paths in reversed order as well
GameStarts ==
    {NewGame(MinBoardSize), from_game_record(SmallBoard, Crossing)}

InitGame == NoSearch /\ \E start \in GameStarts : StartsAs(start)

\* a successful apply_move
ApplyAccepted ==
    \E move \in MoveInputs(Self) :
        /\ apply_move(Self, move).ret
        /\ Becomes(apply_move(Self, move).self)

SpecGame == InitGame /\ [][ApplyAccepted]_vars

\* a move of the list of legal moves is added to the history
ListedMovePlayed ==
    /\ winner = None
    /\ move_history' \in {Append(move_history, move) :
                              move \in Range(EnumerateMoves(Self))}

\* the game goes on: while the side to move has a legal move, one is played
SpecGameFair == SpecGame /\ WF_move_history(ListedMovePlayed)

\* what callers observe of a game: everything but the cache
Observable(self) ==
    [size |-> self.size,
     board |-> self.board,
     current_player |-> self.current_player,
     player_blocks |-> self.player_blocks,
     move_history |-> self.move_history,
     winner |-> self.winner]

-----------------------------------------------------------------------------
(* C1: round trip of apply_move and undo_last_move *)

RECURSIVE UndoAll(_)
UndoAll(self) ==
    IF Len(self.move_history) = 0 THEN self
    ELSE UndoAll(undo_last_move(self).self)

\* C1: in every reachable state, for every move that apply_move accepts there
\* (base or bridge, any size, winning or not), undo_last_move right after it
\* succeeds and gives back the same board (both layers), current_player,
\* inventories and history with winner = None; and undoing every move of the
\* history of a reachable state gives back the new game.
C1_RoundTrip ==
    /\ \A path \in BoardPaths[size] :
          LET move == Move(current_player, path)
              applied == apply_move(Self, move)
              undone == undo_last_move(applied.self)
          IN  applied.ret =>
                /\ undone.ret
                /\ undone.self.winner = None
                /\ Observable(undone.self) = Observable(Self)
    /\ Observable(UndoAll(Self)) = Observable(NewGame(size))

\* a state after two or more moves in which the mover has an accepted bridge
\* move and an accepted move that ends the game
C1_Witness ==
    /\ Len(move_history) >= 2
    /\ \E path \in BoardPaths[size] :
          LET move == Move(current_player, path)
          IN  /\ is_bridge_mode(move)
              /\ apply_move(Self, move).ret
    /\ \E path \in BoardPaths[size] :
          LET applied == apply_move(Self, Move(current_player, path))
          IN  /\ applied.ret
              /\ applied.self.winner = Some(current_player)
              /\ undo_last_move(applied.self).self.winner = None

-----------------------------------------------------------------------------
(* C2: legality check against enumeration *)

Listed(moves, move) == \E i \in 1..Len(moves) : moves[i] = move

\* C2: while the game is in progress, for every probe move of either player
\* (any order of its 3 to 5 positions), is_valid_move accepts the move if and
\* only if a fresh get_legal_moves list holds a move with the same player and
\* the same positions in the same order.
C2_ValidIffListed ==
    winner = None =>
        \A player \in Players, path \in ProbePaths[size] :
            is_valid_move(Self, Move(player, path))
                <=> Listed(EnumerateMoves(Self), Move(player, path))

-----------------------------------------------------------------------------
(* C4: apply_move after the end of the game or out of turn *)

\* C4: in every reachable state, apply_move with a probe move returns False and
\* changes nothing of the game when winner is set or when the move's player is
\* not current_player; so no apply_move succeeds while winner is set.
C4_RejectedTurn ==
    \A player \in Players, path \in ProbePaths[size] :
        (winner # None \/ player # current_player) =>
            apply_move(Self, Move(player, path)) = [ret |-> FALSE, self |-> Self]

\* a finished game in which some probe move fits the board and the inventory
\* and is refused all the same
C4_Witness ==
    /\ winner # None
    /\ Len(move_history) > 0
    /\ \E player \in Players, path \in BoardPaths[size] :
          /\ MoveValidator_is_valid_move(Move(player, path), board, player_blocks)
          /\ ~apply_move(Self, Move(player, path)).ret

-----------------------------------------------------------------------------
(* C5: invalid moves *)

Cells(path) == {<<path[i].row, path[i].col>> : i \in 1..Len(path)}

\* not colinear, not contiguous, or a cell twice
ViolatesShape(path) ==
    LET rows == {path[i].row : i \in 1..Len(path)}
        cols == {path[i].col : i \in 1..Len(path)}
        Interval(S) == \A x \in S, y \in S : y - x < Len(path)
    IN  \/ Cardinality(Cells(path)) # Len(path)
        \/ Cardinality(rows) # 1 /\ Cardinality(cols) # 1
        \/ ~Interval(rows)
        \/ ~Interval(cols)

\* for a path on the board on one layer: a base move onto an occupied cell; a
\* bridge move that does not start and end on the mover's layer-1 tiles, that
\* crosses a tile of the opponent, or that meets an occupied layer-2 cell
ViolatesOccupancy(self, move) ==
    LET path == move.path
        L1(i) == self.board[path[i].row][path[i].col][0]
        L2(i) == self.board[path[i].row][path[i].col][1]
    IN  IF path[1].layer = 0
        THEN \E i \in 1..Len(path) : L1(i) # 0
        ELSE \/ L1(1) # move.player
             \/ L1(Len(path)) # move.player
             \/ \E i \in 1..Len(path) : L1(i) = -move.player
             \/ \E i \in 1..Len(path) : L2(i) # 0

LacksBlock(self, move) ==
    \/ Len(move.path) = 4 /\ self.player_blocks[move.player].size4 = 0
    \/ Len(move.path) = 5 /\ self.player_blocks[move.player].size5 = 0

\* the probe moves the claim is about
IsInvalidMove(self, move) ==
    \/ ViolatesShape(move.path)
    \/ ~OnBoard(self.size, move.path)
    \/ LacksBlock(self, move)
    \/ /\ OnBoard(self.size, move.path)
       /\ \A i \in 1..Len(move.path) : move.path[i].layer = move.path[1].layer
       /\ ViolatesOccupancy(self, move)

\* C5: in every reachable state, apply_move with a probe move of the current
\* player whose path violates shape, leaves the board, violates occupancy or
\* needs a block the mover has used up returns False and changes nothing.
C5_InvalidRejected ==
    \A path \in ProbePaths[size] :
        LET move == Move(current_player, path)
        IN  IsInvalidMove(Self, move) =>
                apply_move(Self, move) = [ret |-> FALSE, self |-> Self]

-----------------------------------------------------------------------------
(* C6: the result of a successful apply_move *)

\* C6: in every reachable state, after every accepted probe move by player p:
\* winner is p if check_bridge(p) holds on the new board and is still None
\* otherwise; current_player stays p when the winner is set and becomes -p
\* when it is not; the history is the old history with the move appended.
C6_AfterApply ==
    \A path \in BoardPaths[size] :
        LET move == Move(current_player, path)
            p == move.player
            applied == apply_move(Self, move)
            after == applied.self
        IN  applied.ret =>
              /\ after.winner = Some(p) <=> check_bridge(size, after.board, p)
              /\ after.winner \in {None, Some(p)}
              /\ after.winner # None => after.current_player = p
              /\ after.winner = None => after.current_player = -p
              /\ after.move_history = Append(move_history, move)

\* a state after a move from which one accepted move ends the game and
\* another does not
C6_Witness ==
    /\ Len(move_history) > 0
    /\ \E path \in BoardPaths[size] :
          LET applied == apply_move(Self, Move(current_player, path))
          IN  applied.ret /\ applied.self.winner = Some(current_player)
    /\ \E path \in BoardPaths[size] :
          LET applied == apply_move(Self, Move(current_player, path))
          IN  applied.ret /\ applied.self.winner = None

-----------------------------------------------------------------------------
(* C9: the bridge layer rests on the base layer *)

\* C9: in every reachable state, every cell whose layer-2 value is non-zero has
\* a non-zero layer-1 value.
C9_BridgeRests ==
    \A r \in 0..(size - 1), c \in 0..(size - 1) :
        board[r][c][1] # 0 => board[r][c][0] # 0

-----------------------------------------------------------------------------
(* C10: inventory *)

\* the number of moves of length n by player p in a history
MovesOfSize(history, p, n) ==
    Cardinality({i \in 1..Len(history) :
                    history[i].player = p /\ Len(history[i].path) = n})

\* C10: in every reachable state both counts of both players are 0 or more
\* and equal 1 minus the number of moves of that length by that player in the
\* history (so at most one of each is in the history), and a probe move of
\* length 3 is accepted or refused the same with an exhausted inventory, and
\* applied whenever it is accepted.
C10_Inventory ==
    /\ \A p \in Players :
          /\ player_blocks[p].size4 >= 0
          /\ player_blocks[p].size5 >= 0
          /\ player_blocks[p].size4 = 1 - MovesOfSize(move_history, p, 4)
          /\ player_blocks[p].size5 = 1 - MovesOfSize(move_history, p, 5)
    /\ \A path \in BoardPaths[size] :
          LET move == Move(current_player, path)
              spent == [p \in Players |-> PlayerBlocks(0, 0)]
          IN  Len(path) = 3 =>
                /\ is_valid_move(Self, move)
                     = is_valid_move([Self EXCEPT !.player_blocks = spent], move)
                /\ is_valid_move(Self, move) => apply_move(Self, move).ret

\* one player has used the 5-block and the other the 4-block
C10_Witness ==
    \E p \in Players :
        /\ player_blocks[p].size5 = 0
        /\ player_blocks[-p].size4 = 0
        /\ MovesOfSize(move_history, p, 5) = 1

-----------------------------------------------------------------------------
(* C3: the cache of legal moves *)

\* C3: in every state reached by apply_move, undo_last_move, reset and
\* get_legal_moves calls in any order, get_legal_moves returns the list that
\* an enumeration over the current board, current_player and inventories
\* gives.
C3_CacheFresh == get_legal_moves(Self).ret = EnumerateMoves(Self)

-----------------------------------------------------------------------------
(* C7: the next player cannot move *)

\* the cells a player holds on both layers together
count_tiles(self, p) ==
    Cardinality({slot \in (0..(self.size - 1)) \X (0..(self.size - 1)) \X (0..1) :
                    self.board[slot[1]][slot[2]][slot[3]] = p})

\* the winner by territory: the player with more cells, 0 on a tie
TerritoryWinner(self) ==
    IF count_tiles(self, 1) > count_tiles(self, -1) THEN 1
    ELSE IF count_tiles(self, -1) > count_tiles(self, 1) THEN -1
    ELSE 0

\* an accepted move that completes no bridge and leaves the opponent, now to
\* move, without a legal move
LeavesNoMove(self, applied, p) ==
    /\ applied.ret
    /\ ~check_bridge(self.size, applied.self.board, p)
    /\ MovesFromCells([applied.self EXCEPT !.current_player = -p,
                                           !.winner = None], 0) = <<>>

\* C7 as claimed: after a listed legal move that is applied, completes no
\* bridge and leaves the next player without a legal move, winner is the
\* player with more cells on both layers, or 0 on a tie.
C7_TerritoryVerdict ==
    \A move \in Range(EnumerateMoves(Self)) :
        LET applied == apply_move(Self, move)
        IN  LeavesNoMove(Self, applied, current_player) =>
                applied.self.winner = Some(TerritoryWinner(applied.self))

\* C7 as amended: after such a listed legal move apply_move leaves winner = None and gives
\* the turn to the player who cannot move, and check_winner on that state
\* returns 0, a draw, whatever the cell counts are.
C7_TurnPassesOn ==
    \A move \in Range(EnumerateMoves(Self)) :
        LET applied == apply_move(Self, move)
        IN  LeavesNoMove(Self, applied, current_player) =>
              /\ applied.self.winner = None
              /\ applied.self.current_player = -current_player
              /\ ~is_game_over(applied.self)
              /\ check_winner(applied.self).ret = Some(0)

\* a state reached by a move that completed no bridge, in which the player to
\* move has no legal move and the players hold different numbers of cells
C7_Witness ==
    /\ Len(move_history) > 0
    /\ winner = None
    /\ current_player = -move_history[Len(move_history)].player
    /\ EnumerateMoves(Self) = <<>>
    /\ TerritoryWinner(Self) # 0

-----------------------------------------------------------------------------
(* C8: check_bridge against connectivity *)

\* the cells that hold the color of player p on layer 1 or layer 2
ColorCells(n, b, p) ==
    {cell \in (0..(n - 1)) \X (0..(n - 1)) :
        b[cell[1]][cell[2]][0] = p \/ b[cell[1]][cell[2]][1] = p}

Adjacent(x, y) ==
    \/ x[1] = y[1] /\ (x[2] - y[2] = 1 \/ y[2] - x[2] = 1)
    \/ x[2] = y[2] /\ (x[1] - y[1] = 1 \/ y[1] - x[1] = 1)

\* the cells of `cells` joined to a cell of S by a 4-connected path in `cells`
RECURSIVE Joined(_, _)
Joined(cells, S) ==
    LET more == S \cup {y \in cells : \E x \in S : Adjacent(x, y)}
    IN  IF more = S THEN S ELSE Joined(cells, more)

\* a 4-connected path in `cells` from row 0 to row n-1 for player 1, from
\* column 0 to column n-1 for player -1
EdgesJoined(n, cells, p) ==
    LET k == IF p = 1 THEN 1 ELSE 2
    IN  \E y \in Joined(cells, {x \in cells : x[k] = 0}) : y[k] = n - 1

\* C8: for every board, check_bridge(p) is true exactly when a 4-connected
\* path of cells holding color p on either layer joins p's two edges; the
\* right-hand side reads nothing but the set of cells that hold p's color, so
\* the result cannot change while that set stays the same.
C8_BridgeIsPath ==
    \A p \in Players :
        check_bridge(size, board, p) = EdgesJoined(size, ColorCells(size, board, p), p)

\* player 1 has a bridge that bends (no column is entirely player 1's) and
\* that uses a cell coloured on layer 2
C8_Witness ==
    /\ check_bridge(size, board, 1)
    /\ \A c \in 0..(size - 1) : \E r \in 0..(size - 1) :
          <<r, c>> \notin ColorCells(size, board, 1)
    /\ \E cell \in ColorCells(size, board, 1) : board[cell[1]][cell[2]][1] = 1

-----------------------------------------------------------------------------
(* C11: the legal moves on an empty board *)

\* the sum over L in {3, 4, 5} with L <= n of 2 * n * (n - L + 1)
EmptyBoardCount(n) ==
    LET Term(L) == IF L <= n THEN 2 * n * (n - L + 1) ELSE 0
    IN  Term(3) + Term(4) + Term(5)

\* one base move of player 1 per start cell, axis and length that fits
EmptyBoardMoves(n) ==
    {m \in {Move(1, Run(r, c, d[1], d[2], 0, L)) :
                r \in 0..(n - 1), c \in 0..(n - 1),
                d \in {<<0, 1>>, <<1, 0>>}, L \in 3..5} :
        OnBoard(n, m.path)}

\* C11: in every state with an empty board, the initial inventories and
\* player 1 to move, get_legal_moves returns exactly EmptyBoardCount(size)
\* moves, each one once, and they are the base moves of player 1 that fit.
C11_EmptyBoardMoves ==
    (/\ board = EmptyBoard(size)
     /\ player_blocks = [p \in Players |-> PlayerBlocks(1, 1)]
     /\ current_player = 1
     /\ winner = None)
    => LET moves == get_legal_moves(Self).ret
       IN  /\ Len(moves) = EmptyBoardCount(size)
           /\ Cardinality(Range(moves)) = Len(moves)
           /\ Range(moves) = EmptyBoardMoves(size)

-----------------------------------------------------------------------------
(* C12: base moves and the two layers *)

\* C12: while the game is in progress, a base move of the current player
\* along a probe path on the board, of a length the inventory covers, is
\* accepted if and only if layer 1 is empty on every cell of the path,
\* whatever layer 2 holds there.
C12_BaseMoveIffEmpty ==
    winner = None =>
        \A path \in BoardPaths[size] :
            (/\ path[1].layer = 0
             /\ has_block(player_blocks[current_player], Len(path)))
            => (is_valid_move(Self, Move(current_player, path))
                  <=> \A i \in 1..Len(path) :
                         board[path[i].row][path[i].col][0] = 0)

-----------------------------------------------------------------------------
(* C13: the ends of an accepted bridge move *)

\* C13: in every reachable state, every bridge move along a probe path that
\* is_valid_move accepts has the mover's color on layer 1 of path[0] and of
\* path[-1], layer 1 empty or the mover's on every cell, and layer 2 empty on
\* every cell.
C13_BridgeEnds ==
    \A path \in BoardPaths[size] :
        LET move == Move(current_player, path)
            L1(i) == board[path[i].row][path[i].col][0]
            L2(i) == board[path[i].row][path[i].col][1]
        IN  (path[1].layer = 1 /\ is_valid_move(Self, move)) =>
              /\ L1(1) = current_player
              /\ L1(Len(path)) = current_player
              /\ \A i \in 1..Len(path) : L1(i) \in {0, current_player}
              /\ \A i \in 1..Len(path) : L2(i) = 0

-----------------------------------------------------------------------------
(* C20: construction of a Move *)

\* the player values a caller hands to the constructor
PlayerInputs == {-2, -1, 0, 1, 2}

\* the paths a caller hands to the constructor: runs of 0 to MaxPathLen
\* positions on either layer, and the probe paths
ConstructorPaths ==
    [n \in BoardSizes \cup {MinBoardSize} |->
        {Run(0, 0, d[1], d[2], l, k) :
            d \in {<<0, 1>>, <<1, 0>>}, l \in 0..1, k \in 0..MaxPathLen}
        \cup ProbePaths[n]]

\* C20: the constructor raises exactly when the path has fewer than 3 or more
\* than 5 positions or the player is neither 1 nor -1; every other move is
\* constructed, and when its path is not colinear, not contiguous or repeats
\* a cell, is_valid_move rejects it and apply_move refuses it in every
\* reachable state.
C20_Construction ==
    /\ \A player \in PlayerInputs, path \in ConstructorPaths[size] :
          ~MoveConstructible(player, path)
              <=> (Len(path) < 3 \/ Len(path) > 5 \/ player \notin {1, -1})
    /\ \A path \in ProbePaths[size] :
          LET move == Move(current_player, path)
          IN  (MoveConstructible(current_player, path) /\ ViolatesShape(path)) =>
                /\ ~is_valid_move(Self, move)
                /\ apply_move(Self, move) = [ret |-> FALSE, self |-> Self]

\* a game in progress in which a bent path over empty cells of the board is
\* constructed for the player to move and refused by apply_move
C20_Witness ==
    /\ Len(move_history) > 0
    /\ winner = None
    /\ \E path \in ProbePaths[size] :
          /\ MoveConstructible(current_player, path)
          /\ ~all_same_row(path) /\ ~all_same_col(path)
          /\ OnBoard(size, path)
          /\ \A i \in 1..Len(path) :
                path[i].layer = 0 /\ board[path[i].row][path[i].col] = [l \in 0..1 |-> 0]
          /\ ~apply_move(Self, Move(current_player, path)).ret

-----------------------------------------------------------------------------
(* C14: forced defence at the root *)

\* the positions a search call has returned from
Returned == {"return_no_moves", "return_blocking_move", "return_best_move"}

\* the one-ply winning replies of player p when p is handed the move
OnePlyWins(self, p) ==
    LET handed == [self EXCEPT !.current_player = p]
    IN  {m \in Range(EnumerateMoves(handed)) :
            apply_move(handed, m).self.winner = Some(p)}

\* move m of the player to move is applied and leaves the opponent without a
\* one-ply winning reply
LeavesNoWin(self, m) ==
    LET applied == apply_move(self, m)
    IN  applied.ret /\ OnePlyWins(applied.self, -self.current_player) = {}

\* C14: when the opponent has a one-ply winning reply in the position search
\* is called on and some legal move of the mover leaves the opponent without
\* one, search returns such a move and has run no simulation
\* (simulations_run = 0), whatever use_tactical_heuristics is.
C14_ForcedDefence ==
    (/\ pc \in Returned
     /\ OnePlyWins(Self, -current_player) # {}
     /\ \E m \in Range(EnumerateMoves(Self)) : LeavesNoWin(Self, m))
    => /\ returned # None
       /\ LeavesNoWin(Self, returned[1])
       /\ simulation_count = 0
       /\ mcts.stats.simulations_run = 0

-----------------------------------------------------------------------------
(* C15: a search that runs out of budget *)

\* C15: when the position search is called on has a legal move, search
\* returns one of its legal moves, also when the loop is left before a
\* simulation was run.
C15_AlwaysAMove ==
    (pc \in Returned /\ EnumerateMoves(Self) # <<>>)
    => /\ returned # None
       /\ returned[1] \in Range(EnumerateMoves(Self))

-----------------------------------------------------------------------------
(* C16: a search on a position without legal moves *)

\* C16: when the position search is called on has no legal move (its winner
\* is set, or the player to move is stuck), search returns None through the
\* first return statement: no simulation runs and the tree is the root alone.
C16_NoMovesNoSearch ==
    (pc # "idle" /\ EnumerateMoves(Self) = <<>>)
    => /\ pc = "return_no_moves"
       /\ returned = None
       /\ simulation_count = 0
       /\ mcts.stats.simulations_run = 0
       /\ Len(nodes) = 1

\* search has returned on a game that was over when it was called
C16_Witness ==
    /\ pc = "return_no_moves"
    /\ winner # None
    /\ Len(move_history) > 0
    /\ returned = None

-----------------------------------------------------------------------------
(* C17: the limit on the number of simulations *)

\* C17: with max_simulations configured as an integer N, the loop never runs
\* more than N simulations, and when it is not left through the time check
\* search ends after exactly N of them: simulations_run = N and the tree has
\* at most N + 1 nodes.
C17_ExactlyN ==
    mcts.max_simulations # None =>
        LET N == mcts.max_simulations[1]
        IN  /\ pc = "loop" => simulation_count <= N
            /\ (pc = "return_best_move" /\ ~time_up) =>
                  /\ simulation_count = N
                  /\ mcts.stats.simulations_run = N
                  /\ Len(nodes) <= N + 1
                  /\ mcts.stats.nodes_explored <= N + 1

-----------------------------------------------------------------------------
(* C18: the move the tree search returns *)

\* C18: when search returns after the loop and the root has children, the
\* returned move is the move of a child of the root that has at least as many
\* visits as every other child and more visits than every child created
\* before it.
C18_MostVisited ==
    (pc = "return_best_move" /\ nodes[1].children # <<>>)
    => \E b \in Range(nodes[1].children) :
          /\ returned = nodes[b].move
          /\ \A k \in Range(nodes[1].children) :
                \/ nodes[k].visits < nodes[b].visits
                \/ nodes[k].visits = nodes[b].visits /\ k >= b

\* search has returned after two or more simulations with two children tied
\* for the most visits, and the move is that of the older one
C18_Witness ==
    /\ pc = "return_best_move"
    /\ simulation_count >= 2
    /\ \E b \in Range(nodes[1].children), k \in Range(nodes[1].children) :
          /\ b < k
          /\ nodes[b].visits = nodes[k].visits
          /\ \A j \in Range(nodes[1].children) : nodes[j].visits <= nodes[b].visits
          /\ returned = nodes[b].move

-----------------------------------------------------------------------------
(* C19: the exploration weight of the engine *)

\* C19: at every node the selection loop can choose a child of, the child
\* select_child returns is the first one with the largest UCB1 value computed
\* with the exploration_weight of the engine.
C19_ConfiguredWeight ==
    pc = "loop" =>
        \A k \in 1..Len(nodes) :
            (/\ ~is_terminal(nodes[k])
             /\ is_fully_expanded(nodes[k])
             /\ nodes[k].children # <<>>)
            => LET children == nodes[k].children
               IN  select_child(nodes, k)
                     = children[IndexOfMax([i \in 1..Len(children) |->
                                   ucb1(nodes, children[i], mcts.exploration_weight)])]

-----------------------------------------------------------------------------
(* C21: clone gives an equal and independent game *)

\* C21: the object restored from get_state() of a reachable state, as clone()
\* does, has the same board cells, current_player, inventories, move history
\* (player and path of each move, in order) and winner as the state it was
\* taken from; and a later apply_move, undo_last_move or reset on one of the
\* two objects leaves the other as it was.
C21_Clone ==
    [][/\ (cloned = None /\ cloned' # None) =>
             /\ Observable(cloned'[1].game) = Observable(Self)
             /\ cloned'[1].game.move_history = move_history
       /\ (cloned # None /\ cloned' # None) =>
             \/ Observable(cloned'[1].game) = Observable(cloned[1].game)
             \/ Observable(Self)' = Observable(Self)]_vars

\* a game that was cloned after a bridge move for which a block of four was
\* used, and then played on differently on the two sides, to a win on one
C21_Witness ==
    /\ cloned # None
    /\ Len(move_history) = MaxCloneMoves
    /\ Len(cloned[1].game.move_history) = MaxCloneMoves
    /\ cloned[1].game.move_history[3] = move_history[3]
    /\ is_bridge_mode(move_history[3])
    /\ block_size(move_history[3]) = 4
    /\ cloned[1].game.move_history[4] # move_history[4]
    /\ cloned[1].game.winner # None
    /\ winner = None

-----------------------------------------------------------------------------
(* C22: the move search returns can be played *)

-----------------------------------------------------------------------------
(* C23: search leaves the caller's game alone *)

\* C23: no step of a search call changes the board cells, current_player,
\* inventories, move history or winner of the game object search was called
\* on, whichever way the call returns (no moves, forced defence, tree
\* search).
C23_CallerStateKept ==
    [][Observable(Self)' = Observable(Self)]_vars

\* search has returned a blocking move for a game with a history, and has
\* read the legal moves of the caller's object on the way
C23_Witness ==
    /\ pc = "return_blocking_move"
    /\ returned # None
    /\ move_history # <<>>
    /\ cache_valid
    /\ legal_moves_cache # None

-----------------------------------------------------------------------------
(* C24: what one simulation changes in the tree *)

\* node k and its ancestors
RECURSIVE PathToRoot(_, _)
PathToRoot(tree, k) ==
    IF tree[k].parent = 0 THEN {k}
    ELSE {k} \cup PathToRoot(tree, tree[k].parent)

\* the node a simulation that turned `before` into `after` has played out
\* from: the node it created, or else the node the selection ended at
LeafOf(before, after) ==
    IF Len(after) > Len(before) THEN Len(after) ELSE Selection(before, 1)

\* what node k has gained in visits and in wins (in halves)
VisitsGain(before, after, k) ==
    after[k].visits - (IF k <= Len(before) THEN before[k].visits ELSE 0)

WinsGain(before, after, k) ==
    after[k].wins - (IF k <= Len(before) THEN before[k].wins ELSE 0)

\* C24: in one simulation exactly the nodes on the path from the expanded
\* (or selected) node up to the root get one more visit and no other node
\* changes; the wins of that node grow by 1.0 when the playout winner is its
\* player to move, by 0.5 for a draw and by 0.0 otherwise, and the wins of
\* each ancestor grow by 1 minus what its child on the path got.
C24_OneSimulation ==
    [][simulation_count' = simulation_count + 1 =>
          LET leaf == LeafOf(nodes, nodes')
              path == PathToRoot(nodes', leaf)
          IN  /\ Len(nodes') \in {Len(nodes), Len(nodes) + 1}
              /\ 1 \in path
              /\ \A k \in (1..Len(nodes')) \ path :
                    k <= Len(nodes) /\ nodes'[k] = nodes[k]
              /\ \A k \in path : VisitsGain(nodes, nodes', k) = 1
              /\ \E result \in simulate_random_playout(
                                    mcts, clone(nodes'[leaf].game_state)) :
                    WinsGain(nodes, nodes', leaf) =
                        IF result = nodes'[leaf].player THEN 2
                        ELSE IF result = 0 THEN 1 ELSE 0
              /\ \A k \in path \ {1} :
                    WinsGain(nodes, nodes', nodes'[k].parent)
                        = 2 - WinsGain(nodes, nodes', k)]_vars

\* a tree after three or more simulations, the last of which has run
\* through a child of the root to a new node below it
C24_Witness ==
    /\ \E k \in 1..Len(nodes) :
          /\ nodes[k].parent > 1
          /\ nodes[k].visits = 1
          /\ nodes[nodes[k].parent].visits = 2
          /\ nodes[1].visits = simulation_count
    /\ simulation_count >= 3

-----------------------------------------------------------------------------
(* C25: wins are counted from the node's own side *)

\* the outcome of a playout that returned `result` as player p sees it, in
\* halves: a win 2, a draw 1, a loss 0
Outcome(result, p) == IF result = p THEN 2 ELSE IF result = 0 THEN 1 ELSE 0

\* C25: the wins of every node are the sum, over the simulations that were
\* propagated through it, of the playout outcome seen from the node's own
\* player to move (1.0 when the playout winner is node.player, 0.5 for a
\* draw, 0.0 when the other player won): every simulation adds to each node
\* on its path the outcome of its playout for that node's player, the
\* parent of a terminal child included.
C25_WinsOfOwnPlayer ==
    [][simulation_count' = simulation_count + 1 =>
          LET leaf == LeafOf(nodes, nodes')
              path == PathToRoot(nodes', leaf)
          IN  \E result \in simulate_random_playout(
                                 mcts, clone(nodes'[leaf].game_state)) :
                 \A k \in path :
                    WinsGain(nodes, nodes', k) = Outcome(result, nodes'[k].player)]_vars

-----------------------------------------------------------------------------
(* C26: the exploitation term is the success rate of the chooser *)

\* C26: at a node whose player to move is P, a child reached by a move of P
\* that does not win gets 1.0 for a playout through it that P wins and 0.0
\* for one that -P wins (and 0.5 for a draw), so that wins / visits of the
\* child, which select_child of the node maximises, is the success rate of
\* the player who chooses the move at the node.
C26_ChooserSuccessRate ==
    [][simulation_count' = simulation_count + 1 =>
          LET leaf == LeafOf(nodes, nodes')
              path == PathToRoot(nodes', leaf)
          IN  \E result \in simulate_random_playout(
                                 mcts, clone(nodes'[leaf].game_state)) :
                 /\ WinsGain(nodes, nodes', leaf)
                       = Outcome(result, nodes'[leaf].player)
                 /\ \A k \in path \ {1} :
                       ~is_terminal(nodes'[k]) =>
                          WinsGain(nodes, nodes', k)
                             = Outcome(result, nodes'[nodes'[k].parent].player)]_vars

-----------------------------------------------------------------------------
(* C27: children without visits come first *)

\* C27: for every node that has a child with visits = 0, select_child
\* returns a child with visits = 0, whatever the wins and visits of the
\* visited siblings are; and ucb1 of a child with visits = 0 is +infinity,
\* also when the visit count of the parent cannot be read (the logarithm of
\* 0 visits does not exist).
C27_UnvisitedFirst ==
    \A k \in 1..Len(nodes) :
        LET children == nodes[k].children
            unvisited == {i \in 1..Len(children) : nodes[children[i]].visits = 0}
        IN  /\ unvisited # {} => nodes[select_child(nodes, k)].visits = 0
            /\ \A i \in unvisited, weight \in ExplorationWeights :
                  /\ ucb1(nodes, children[i], weight) = Infinity
                  /\ ucb1([nodes EXCEPT ![k].visits = 0], children[i], weight)
                        = Infinity
            /\ \A i \in (1..Len(children)) \ unvisited :
                  ucb1(nodes, children[i], DefaultExplorationWeight) < Infinity

\* a node whose first child has visits and a full score and whose second
\* child has no visit
C27_Witness ==
    \E k \in 1..Len(nodes) :
        /\ Len(nodes[k].children) >= 2
        /\ nodes[nodes[k].children[1]].visits >= 2
        /\ nodes[nodes[k].children[1]].wins = 2 * nodes[nodes[k].children[1]].visits
        /\ nodes[nodes[k].children[2]].visits = 0
        /\ select_child(nodes, k) = nodes[k].children[2]

-----------------------------------------------------------------------------
(* C28: children and untried moves partition the legal moves *)

\* the moves of the children of node k followed by its untried moves
MovesOfNode(tree, k) ==
    [i \in 1..Len(tree[k].children) |-> tree[tree[k].children[i]].move[1]]
    \o tree[k].untried_moves

\* the moves of the children of node k together with its untried moves are
\* the legal moves of its state, each once; each child holds the state of
\* node k with its move applied; a terminal node has no child
NodeMovesPartition(tree, k) ==
    LET moves == MovesOfNode(tree, k)
        legal == get_legal_moves(clone(tree[k].game_state)).ret
    IN  /\ Range(moves) = Range(legal)
        /\ Len(moves) = Len(legal)
        /\ Cardinality(Range(moves)) = Len(moves)
        /\ \A i \in 1..Len(tree[k].children) :
              LET child == tree[tree[k].children[i]]
                  applied == apply_move(clone(tree[k].game_state), child.move[1])
              IN  /\ child.parent = k
                  /\ applied.ret
                  /\ Observable(child.game_state) = Observable(applied.self)
        /\ is_terminal(tree[k]) => tree[k].children = <<>>

\* C28: at every point of a search and for every node, the moves of its
\* children together with its untried_moves are exactly the legal moves of
\* the node's state with no move occurring twice; each expansion removes
\* exactly one untried move and adds exactly one child, whose state is the
\* node's state with that move applied; expansion happens only at
\* non-terminal nodes, so a terminal node never has children.
C28_MovesPartition ==
    [][/\ \A k \in 1..Len(nodes') : NodeMovesPartition(nodes', k)
       /\ (nodes # <<>> /\ nodes' # nodes /\ Len(nodes') > Len(nodes)) =>
             LET child == Len(nodes')
                 parent == nodes'[child].parent
             IN  /\ Len(nodes') = Len(nodes) + 1
                 /\ ~is_terminal(nodes[parent])
                 /\ nodes'[parent].children = Append(nodes[parent].children, child)
                 /\ nodes[parent].untried_moves # <<>>
                 /\ Len(nodes'[parent].untried_moves)
                       = Len(nodes[parent].untried_moves) - 1
                 /\ Range(nodes'[parent].untried_moves)
                       = Range(nodes[parent].untried_moves) \ {nodes'[child].move[1]}
                 /\ \A k \in (1..Len(nodes)) \ {parent} :
                       /\ nodes'[k].children = nodes[k].children
                       /\ nodes'[k].untried_moves = nodes[k].untried_moves]_vars

\* a tree in which a node has children and untried moves left, and a child
\* reached by a winning move has no children
C28_Witness ==
    /\ nodes # <<>>
    /\ \E k \in 1..Len(nodes) :
          /\ Len(nodes[k].children) >= 2
          /\ nodes[k].untried_moves # <<>>
    /\ \E k \in 1..Len(nodes) :
          /\ is_terminal(nodes[k])
          /\ nodes[k].children = <<>>
          /\ nodes[k].parent # 0

-----------------------------------------------------------------------------
(* C29: the game state of a tree node is never changed *)

\* C29: once a tree node is created, the board, current_player, inventories,
\* move history and winner of its game state stay as they are for the rest
\* of the search, through expansions of the node and of other nodes,
\* playouts and backpropagation.
C29_NodeStatesKept ==
    [][\A k \in 1..Len(nodes) :
          /\ k <= Len(nodes')
          /\ Observable(nodes'[k].game_state) = Observable(nodes[k].game_state)
          /\ nodes'[k].player = nodes[k].player
          /\ nodes'[k].move = nodes[k].move
          /\ nodes'[k].parent = nodes[k].parent]_vars

\* a tree in which a node below the root was expanded, and simulations were
\* played out from it and from its child
C29_Witness ==
    \E k \in 2..Len(nodes) :
        /\ nodes[k].children # <<>>
        /\ nodes[k].visits >= 2
        /\ nodes[1].visits >= 3
        /\ nodes[k].game_state.legal_moves_cache
              # Some(get_legal_moves(clone(nodes[k].game_state)).ret)

-----------------------------------------------------------------------------
(* C30: playouts end and return the winner or a draw *)

\* every counted move of the playout was applied, and no more than the cap;
\* the returned value is the winner of the final state, whose bridge is on
\* the board, or 0 when the playout stopped without one, at the cap or with
\* no legal move for the side to move, and then no player has a bridge
PlayoutSound ==
    playout # None =>
        LET run == playout[1]
        IN  /\ run.move_count = Len(move_history) - run.start
            /\ run.move_count <= PlayoutCap
            /\ run.result # None =>
                  /\ run.result[1] \in {1, -1, 0}
                  /\ winner # None =>
                        /\ run.result[1] = winner[1]
                        /\ check_bridge(size, board, winner[1])
                  /\ winner = None =>
                        /\ run.result[1] = 0
                        /\ \/ run.move_count = PlayoutCap
                           \/ EnumerateMoves(Self) = <<>>
                  /\ run.result[1] = 0 =>
                        \A player \in {1, -1} : ~check_bridge(size, board, player)

-----------------------------------------------------------------------------
(* C31: the move a tactical playout plays *)

\* applying `move` gives the side to move of `self` a bridge
CompletesBridge(self, move) ==
    check_bridge(self.size, apply_move(self, move).self.board, self.current_player)

\* the places, among the first MaxCheck of the list, of the moves that
\* complete the bridge of the side to move
EarlyWins(self, legal_moves) ==
    {i \in 1..Len(legal_moves) : i <= MaxCheck /\ CompletesBridge(self, legal_moves[i])}

Least(S) == CHOOSE i \in S : \A j \in S : i <= j

\* a step of a playout that applies a move
IsPly == playout # None /\ playout' # None
         /\ playout'[1].move_count = playout[1].move_count + 1

\* a step with which the playout returns
IsReturn == playout # None /\ playout' # None
            /\ playout[1].result = None /\ playout'[1].result # None

\* C31: in a tactical playout, at every ply where at least one of the first
\* 30 moves of the list of legal moves completes the bridge of the side to
\* move, the move played is the first such move in the order of the list and
\* the playout returns that side as the winner; when none of those moves
\* wins, the move played is some member of the list of legal moves.
C31_TacticalPly ==
    [][/\ IsPly /\ mcts.use_tactical_heuristics =>
            LET legal_moves == EnumerateMoves(Self)
                wins == EarlyWins(Self, legal_moves)
                played == move_history'[Len(move_history')]
            IN  /\ Len(move_history') = Len(move_history) + 1
                /\ wins # {} => /\ played = legal_moves[Least(wins)]
                                /\ winner' = Some(current_player)
                /\ wins = {} => Listed(legal_moves, played)
       /\ IsReturn /\ mcts.use_tactical_heuristics /\ winner # None
                   /\ playout[1].move_count > 0 =>
            /\ playout'[1].result = winner
            /\ winner[1] = move_history[Len(move_history)].player]_vars

\* a playout on the large board has returned after two moves: the first did
\* not win, because the only winning move stood after the first 30 of a
\* longer list, and the second was the first of several winning moves
C31_Witness ==
    /\ playout # None
    /\ mcts.use_tactical_heuristics
    /\ playout[1].move_count = 2
    /\ playout[1].result = winner
    /\ winner # None
    /\ LET second == undo_last_move(Self).self
           first == undo_last_move(second).self
           second_moves == EnumerateMoves(second)
           first_moves == EnumerateMoves(first)
       IN  /\ Len(first_moves) > MaxCheck
           /\ EarlyWins(first, first_moves) = {}
           /\ \E i \in 1..Len(first_moves) : CompletesBridge(first, first_moves[i])
           /\ Cardinality(EarlyWins(second, second_moves)) > 1
           /\ move_history[Len(move_history)]
                 = second_moves[Least(EarlyWins(second, second_moves))]

-----------------------------------------------------------------------------
(* C32: the shape of the list of legal moves *)

PositionsOf(path) == {path[i] : i \in 1..Len(path)}

\* the path runs to the right along a row or downwards along a column
Increasing(path) ==
    \/ /\ all_same_row(path)
       /\ \A i \in 1..(Len(path) - 1) : path[i].col < path[i + 1].col
    \/ /\ all_same_col(path)
       /\ \A i \in 1..(Len(path) - 1) : path[i].row < path[i + 1].row

\* C32: in every state a fresh list of legal moves contains no two moves that
\* cover the same cells on the same layer, every listed path is in increasing
\* column order (horizontal) or increasing row order (vertical), every listed
\* move has the current player as its player, and no move of length 4 or 5
\* is listed when the current player's count of that size is 0.
C32_ListShape ==
    LET moves == EnumerateMoves(Self)
    IN  \A i \in 1..Len(moves) :
            /\ \A j \in 1..Len(moves) :
                   PositionsOf(moves[i].path) = PositionsOf(moves[j].path) => i = j
            /\ Increasing(moves[i].path)
            /\ moves[i].player = current_player
            /\ Len(moves[i].path) = 4 => player_blocks[current_player].size4 > 0
            /\ Len(moves[i].path) = 5 => player_blocks[current_player].size5 > 0

\* the player to move on the large board has used the tile of 4 and keeps
\* the tile of 5: runs of 5 and runs on the bridge layer are listed
C32_Witness ==
    LET moves == EnumerateMoves(Self)
    IN  /\ player_blocks[current_player].size4 = 0
        /\ player_blocks[current_player].size5 > 0
        /\ \E i \in 1..Len(moves) : Len(moves[i].path) = 5
        /\ \E i \in 1..Len(moves) : moves[i].path[1].layer = 1
        /\ \E i \in 1..Len(moves) : all_same_col(moves[i].path)

-----------------------------------------------------------------------------
(* C33: listed moves can be applied *)

\* every move of a fresh list of legal moves is accepted by is_valid_move
\* and applied by apply_move
FreshListApplies(self) ==
    \A move \in Range(EnumerateMoves(self)) :
        /\ is_valid_move(self, move)
        /\ apply_move(self, move).ret

\* the apply_move calls of the search of a blocking move, made without a
\* look at their result on clones of the caller's game with the moves the
\* caller's game lists, all succeed
BlockingScanApplies(self) ==
    opponent_winning_moves(self) # <<>> =>
        \A my_move \in Range(get_legal_moves(self).ret) :
            apply_move(clone(self), my_move).ret

\* C33: in every reachable in-progress state every move returned by a fresh
\* get_legal_moves is accepted by is_valid_move and apply_move of it returns
\* True; therefore the unchecked apply_move calls of the tree search (in
\* expansion, playouts and tactical scans) never fail silently.
C33_ListedMovesApply ==
    winner = None =>
        /\ FreshListApplies(Self)
        /\ pc = "idle" /\ mcts.use_tactical_heuristics => BlockingScanApplies(Self)

\* the first half alone, in the states of the game
C33_FreshListApplies == winner = None => FreshListApplies(Self)

-----------------------------------------------------------------------------
(* C34: the winner is the player with a bridge *)

\* C34: in every state reachable from a new game through apply_move,
\* undo_last_move and reset, at most one player has a completed bridge, and
\* winner = p holds exactly when check_bridge(p) holds (winner is None exactly
\* when neither player has a bridge); a successful move by one player never
\* changes the result of check_bridge for the other player.
C34_WinnerIsBridge ==
    /\ ~(check_bridge(size, board, 1) /\ check_bridge(size, board, -1))
    /\ \A p \in Players : winner = Some(p) <=> check_bridge(size, board, p)
    /\ winner = None <=> \A p \in Players : ~check_bridge(size, board, p)
    /\ \A move \in MoveInputs(Self) :
          LET applied == apply_move(Self, move)
          IN  applied.ret =>
                 check_bridge(size, applied.self.board, -move.player)
                     = check_bridge(size, board, -move.player)

\* player -1 has won with the second move of the game
C34_Witness ==
    /\ winner = Some(-1)
    /\ check_bridge(size, board, -1)
    /\ ~check_bridge(size, board, 1)
    /\ Len(move_history) = 2

-----------------------------------------------------------------------------
(* C35: a cell holds one colour *)

\* C35: in every state reachable from a new game through apply_move,
\* undo_last_move and reset, no cell holds both colours: if one layer of a
\* cell is +1 the other layer is 0 or +1, and likewise for -1, so
\* has_player_color is never true for both players on the same cell.
C35_OneColourPerCell ==
    \A r \in 0..(size - 1), c \in 0..(size - 1) :
        /\ \A p \in Players, l \in 0..1 :
               board[r][c][l] = p => board[r][c][1 - l] \in {0, p}
        /\ ~(has_player_color(size, board, r, c, 1)
               /\ has_player_color(size, board, r, c, -1))

\* player 1 has bridged from row 0 to row 2 beside a cell of player -1 in
\* row 1: a bridge cell lies over an empty cell, and cells of both colours
\* are on the board
C35_Witness ==
    \E c \in 0..(size - 1) :
        /\ board[0][c][0] = 1 /\ board[0][c][1] = 1
        /\ board[1][c][0] = 0 /\ board[1][c][1] = 1
        /\ board[2][c][0] = 1 /\ board[2][c][1] = 1
        /\ \E d \in 0..(size - 1) : board[1][d][0] = -1

-----------------------------------------------------------------------------
(* C36: every move fills empty slots, and games end *)

Slots(n) == (0..(n - 1)) \X (0..(n - 1)) \X (0..1)

\* the slots that are empty in board b and not in board c
Filled(n, b, c) ==
    {slot \in Slots(n) : b[slot[1]][slot[2]][slot[3]] = 0
                           /\ c[slot[1]][slot[2]][slot[3]] # 0}

\* the slots that are not empty in b and hold something else in c
Overwritten(n, b, c) ==
    {slot \in Slots(n) : b[slot[1]][slot[2]][slot[3]] # 0
                           /\ c[slot[1]][slot[2]][slot[3]]
                                 # b[slot[1]][slot[2]][slot[3]]}

\* the game is over for the side to move
GameEnded == winner # None \/ EnumerateMoves(Self) = <<>>

\* C36: every successful apply_move turns at least 3 previously empty
\* (cell, layer) slots non-zero and changes no slot that was already
\* non-zero; hence without undo or reset a game on a board of size n
\* contains at most floor(2*n*n/3) successful moves and always reaches a
\* state with a winner or with no legal move for the side to move.
C36_GamesEnd ==
    /\ [][Len(move_history') = Len(move_history) + 1 =>
            /\ Cardinality(Filled(size, board, board')) >= 3
            /\ Overwritten(size, board, board') = {}]_vars
    /\ [](Len(move_history) <= (2 * size * size) \div 3)
    /\ <>GameEnded

\* a game on the small board has ended without a winner after at least 7
\* moves, among them a bridge: the side to move has no legal move
C36_Witness ==
    /\ size = SmallBoard
    /\ winner = None
    /\ EnumerateMoves(Self) = <<>>
    /\ Len(move_history) >= 7
    /\ \E i \in 1..Len(move_history) : is_bridge_mode(move_history[i])

-----------------------------------------------------------------------------
(* C37: the players take turns *)

\* C37: in every state reachable from a new game through apply_move and
\* undo_last_move, consecutive moves in the history are by alternating
\* players starting with player +1, and while winner is None current_player
\* is +1 when the length of the history is even and -1 when it is odd.
C37_Alternation ==
    /\ \A i \in 1..Len(move_history) :
          move_history[i].player = (IF i % 2 = 1 THEN 1 ELSE -1)
    /\ winner = None =>
          current_player = (IF Len(move_history) % 2 = 0 THEN 1 ELSE -1)

\* player 1 is to move again after four moves, none of which has won
C37_Witness ==
    /\ winner = None
    /\ Len(move_history) = 4
    /\ current_player = 1
    /\ move_history[4].player = -1

-----------------------------------------------------------------------------
(* C38: the two queries for the end of the game *)

\* C38: in every reachable state the two end-of-game queries agree:
\* is_game_over() is true if and only if check_winner() returns a value other
\* than None, and check_winner() never returns a value different from the
\* stored winner.
C38_QueriesAgree ==
    LET result == check_winner(Self).ret
    IN  /\ is_game_over(Self) <=> result # None
        /\ result = winner

\* the queries agree in every state in which the side to move has a legal
\* move or a winner is stored
C38_AgreeWithMoves ==
    winner # None \/ EnumerateMoves(Self) # <<>> =>
        LET result == check_winner(Self).ret
        IN  /\ is_game_over(Self) <=> result # None
            /\ result = winner

-----------------------------------------------------------------------------
(* C39: the counters of the tree after every simulation *)

RECURSIVE SumVisits(_, _, _)
SumVisits(tree, children, i) ==
    IF i > Len(children) THEN 0
    ELSE tree[children[i]].visits + SumVisits(tree, children, i + 1)

\* the nodes at which the selection loop of the next simulation calls
\* select_child, from node k downwards
RECURSIVE SelectingNodes(_, _)
SelectingNodes(tree, k) ==
    IF /\ ~is_terminal(tree[k])
       /\ is_fully_expanded(tree[k])
       /\ tree[k].children # <<>>
    THEN {k} \cup SelectingNodes(tree, select_child(tree, k))
    ELSE {}

\* C39: after every completed simulation of a tree search, root.visits equals
\* the number of simulations run so far, every node but the root has
\* visits >= 1, the visits of every node are at least the sum of the visits
\* of its children, and 0 <= wins <= visits for every node (wins is counted
\* in halves here); hence whenever selection evaluates ucb1 on a child, the
\* visits of the child and of its parent are both >= 1.
C39_TreeCounters ==
    nodes # <<>> =>
        /\ nodes[1].visits = simulation_count
        /\ \A k \in 2..Len(nodes) : nodes[k].visits >= 1
        /\ \A k \in 1..Len(nodes) :
              /\ nodes[k].visits >= SumVisits(nodes, nodes[k].children, 1)
              /\ 0 <= nodes[k].wins
              /\ nodes[k].wins <= 2 * nodes[k].visits
        /\ \A k \in SelectingNodes(nodes, 1) :
              /\ nodes[k].visits >= 1
              /\ \A i \in 1..Len(nodes[k].children) :
                    nodes[nodes[k].children[i]].visits >= 1

\* the search is in its loop after three simulations, the root is fully
\* expanded, and the next selection compares the children of the root
C39_Witness ==
    /\ pc = "loop"
    /\ simulation_count >= 3
    /\ 1 \in SelectingNodes(nodes, 1)
    /\ Len(nodes[1].children) >= 2

=============================================================================
